---- MODULE Spec2Model ----
(***************************************************************************)
(* Model of the query-intent pipeline of the complaint-analytics chatbot:  *)
(* MSISDN validation (tools/msisdn_validator.py), intent classification    *)
(* (crews/simplified_crew.py), the SmartCare workflow                      *)
(* (workflows/smartcare_workflow.py), entity extraction and SQL building   *)
(* (tools/smart_query_builder.py).                                         *)
(*                                                                         *)
(* Text is modelled by TLA+ strings, handled character by character with   *)
(* Len, SubSeq and \o, so that substring tests, prefix tests and the       *)
(* regular expressions of the source are computed as the code computes     *)
(* them.  Python's None is the string NONE.                                *)
(***************************************************************************)
EXTENDS Integers, Sequences, FiniteSets, TLC

(***************************************************************************)
(* Bounds of the model.                                                    *)
(***************************************************************************)
MinTailLen == 5
MaxTailLen == 10
MaxSaves == 11

\* the seconds between two conversations' first calls
ShortPause == 1

\* calls of the API client, and the seconds between two calls that follow
\* each other closely
MaxApiCalls == 2

BriefGap == 60

\* the seconds a request is watched while nothing answers it
MaxWait == 40

\* narratives generated one after another
MaxNarratives == 2

VARIABLES
  mIn,          \* validator: the string handed to the validator
  mCall,        \* validator: the method that ran last
  mRet,         \* validator: its string result
  mPrev,        \* validator: the string result of the step before
  mFlag,        \* validator: its boolean result
  mValidation   \* validator: the record validate_msisdn returned

VARIABLES
  semantic_mapping, \* builder: SmartQueryBuilder.semantic_mapping
  bCall,        \* builder: the method that ran last
  bIn,          \* builder: its arguments
  bOut          \* builder: what it returned

VARIABLES
  sCall,        \* SmartCare: the method that ran last
  sIn,          \* SmartCare: its arguments and the answers of its collaborators
  sOut          \* SmartCare: what it returned

VARIABLES
  sessions,     \* crew: SessionManager.sessions
  clock,        \* crew: time.time(), in seconds since the crew was built
  turns,        \* crew: the queries processed so far
  last          \* crew: the last turn, its query, classification and answer

VARIABLES
  tCall,        \* time parser: the method that ran last
  tIn,          \* time parser: its arguments, the clock and the reasoner's answer
  tOut          \* time parser: what it returned

VARIABLES
  hCall,        \* session store: the method that ran last
  hIn,          \* session store: its arguments
  hOut,         \* session store: the context get_context_for_followup returned
  arrivals,     \* session store: per session, the interactions handed to
                \* save_interaction since the session began, in arrival order
  idled         \* session store: has the long idle period passed

VARIABLES
  client,       \* API client: access_token and token_expires_at
  aCall,        \* API client: the method that ran last
  aOut,         \* API client: its inputs, what it returned and the requests
                \* it sent
  pending,      \* external calls: the request a query waits on
  waited,       \* external calls: the seconds it has waited
  narratives    \* story agent: the narratives generated so far, each with
                \* what it was generated from

mVars == <<mIn, mCall, mRet, mPrev, mFlag, mValidation>>

bVars == <<bCall, bIn, bOut>>

sVars == <<sCall, sIn, sOut>>

cVars == <<sessions, clock, turns, last>>

tVars == <<tCall, tIn, tOut>>

hVars == <<hCall, hIn, hOut, arrivals, idled>>

aVars == <<client, aCall, aOut, pending, waited, narratives>>

vars == <<mIn, mCall, mRet, mPrev, mFlag, mValidation, semantic_mapping,
          bCall, bIn, bOut, sCall, sIn, sOut, sessions, clock, turns, last,
          tCall, tIn, tOut, hCall, hIn, hOut, arrivals, idled,
          client, aCall, aOut, pending, waited, narratives>>

(***************************************************************************)
(* Python string primitives.                                               *)
(***************************************************************************)
NONE == "<None>"

\* s[i-1:j], the slice of Python: positions outside the string are dropped
Sub(s, i, j) ==
  LET a == IF i < 1 THEN 1 ELSE i
      b == IF j > Len(s) THEN Len(s) ELSE j
  IN  IF a > b THEN "" ELSE SubSeq(s, a, b)

Ch(s, i) == Sub(s, i, i)

DigitChars == {"0", "1", "2", "3", "4", "5", "6", "7", "8", "9"}

LowerLetters ==
  {"a", "b", "c", "d", "e", "f", "g", "h", "i", "j", "k", "l", "m",
   "n", "o", "p", "q", "r", "s", "t", "u", "v", "w", "x", "y", "z"}

UpperLetters ==
  {"A", "B", "C", "D", "E", "F", "G", "H", "I", "J", "K", "L", "M",
   "N", "O", "P", "Q", "R", "S", "T", "U", "V", "W", "X", "Y", "Z"}

\* \d of the re module
IsDigit(c) == c \in DigitChars

\* \w of the re module
IsWordChar(c) == c \in DigitChars \cup LowerLetters \cup UpperLetters \cup {"_"}

\* str.startswith
StartsWith(s, p) == Len(s) >= Len(p) /\ Sub(s, 1, Len(p)) = p

\* s[n:]
DropFirst(s, n) == Sub(s, n + 1, Len(s))

\* `p in s`
Contains(s, p) ==
  \E i \in 1..(Len(s) - Len(p) + 1) : Sub(s, i, i + Len(p) - 1) = p

\* any(k in s for k in keywords)
ContainsAny(s, keywords) == \E k \in keywords : Contains(s, k)

Whitespace == {" ", "\n", "\t", "\r"}

\* str.strip
RECURSIVE LStrip(_)
LStrip(s) == IF s # "" /\ Ch(s, 1) \in Whitespace THEN LStrip(DropFirst(s, 1)) ELSE s

RECURSIVE RStrip(_)
RStrip(s) ==
  IF s # "" /\ Ch(s, Len(s)) \in Whitespace THEN RStrip(Sub(s, 1, Len(s) - 1)) ELSE s

Strip(s) == RStrip(LStrip(s))

\* re.sub(r'\D', '', s)
RECURSIVE DigitsOnly(_)
DigitsOnly(s) ==
  IF s = "" THEN ""
  ELSE (IF IsDigit(Ch(s, 1)) THEN Ch(s, 1) ELSE "") \o DigitsOnly(DropFirst(s, 1))

\* str.lower / str.upper, one character
LowerChar(c) ==
  CASE c = "A" -> "a" [] c = "B" -> "b" [] c = "C" -> "c" [] c = "D" -> "d"
    [] c = "E" -> "e" [] c = "F" -> "f" [] c = "G" -> "g" [] c = "H" -> "h"
    [] c = "I" -> "i" [] c = "J" -> "j" [] c = "K" -> "k" [] c = "L" -> "l"
    [] c = "M" -> "m" [] c = "N" -> "n" [] c = "O" -> "o" [] c = "P" -> "p"
    [] c = "Q" -> "q" [] c = "R" -> "r" [] c = "S" -> "s" [] c = "T" -> "t"
    [] c = "U" -> "u" [] c = "V" -> "v" [] c = "W" -> "w" [] c = "X" -> "x"
    [] c = "Y" -> "y" [] c = "Z" -> "z" [] OTHER -> c

UpperChar(c) ==
  CASE c = "a" -> "A" [] c = "b" -> "B" [] c = "c" -> "C" [] c = "d" -> "D"
    [] c = "e" -> "E" [] c = "f" -> "F" [] c = "g" -> "G" [] c = "h" -> "H"
    [] c = "i" -> "I" [] c = "j" -> "J" [] c = "k" -> "K" [] c = "l" -> "L"
    [] c = "m" -> "M" [] c = "n" -> "N" [] c = "o" -> "O" [] c = "p" -> "P"
    [] c = "q" -> "Q" [] c = "r" -> "R" [] c = "s" -> "S" [] c = "t" -> "T"
    [] c = "u" -> "U" [] c = "v" -> "V" [] c = "w" -> "W" [] c = "x" -> "X"
    [] c = "y" -> "Y" [] c = "z" -> "Z" [] OTHER -> c

RECURSIVE Lower(_)
Lower(s) == IF s = "" THEN "" ELSE LowerChar(Ch(s, 1)) \o Lower(DropFirst(s, 1))

RECURSIVE Upper(_)
Upper(s) == IF s = "" THEN "" ELSE UpperChar(Ch(s, 1)) \o Upper(DropFirst(s, 1))

\* str.replace(old, new)
RECURSIVE Replace(_, _, _)
Replace(s, old, new) ==
  IF Len(s) < Len(old) \/ old = "" THEN s
  ELSE IF Sub(s, 1, Len(old)) = old
       THEN new \o Replace(DropFirst(s, Len(old)), old, new)
       ELSE Ch(s, 1) \o Replace(DropFirst(s, 1), old, new)

\* ' OR '.join(xs), ' AND '.join(xs)
RECURSIVE Join(_, _)
Join(sep, xs) ==
  IF xs = <<>> THEN ""
  ELSE IF Len(xs) = 1 THEN xs[1]
  ELSE xs[1] \o sep \o Join(sep, Tail(xs))

(***************************************************************************)
(* Regular expressions of the form \b<prefix>\d{lo,hi}\b.  Such a pattern  *)
(* matches only digits and is anchored by \b on both sides, so each match  *)
(* is a maximal run of digits whose neighbours are not word characters.    *)
(* DigitRuns(s) is the sequence of those runs, in text order, each with    *)
(* the position of its first character.                                    *)
(***************************************************************************)
RECURSIVE RunEnd(_, _)
RunEnd(s, i) == IF i < Len(s) /\ IsDigit(Ch(s, i + 1)) THEN RunEnd(s, i + 1) ELSE i

RECURSIVE DigitRunsFrom(_, _)
DigitRunsFrom(s, i) ==
  IF i > Len(s) THEN <<>>
  ELSE IF IsDigit(Ch(s, i)) /\ (i = 1 \/ ~IsDigit(Ch(s, i - 1)))
       THEN LET j == RunEnd(s, i)
                leftOk == i = 1 \/ ~IsWordChar(Ch(s, i - 1))
                rightOk == j = Len(s) \/ ~IsWordChar(Ch(s, j + 1))
            IN  (IF leftOk /\ rightOk
                 THEN << [text |-> Sub(s, i, j), start |-> i] >>
                 ELSE <<>>) \o DigitRunsFrom(s, j + 1)
       ELSE DigitRunsFrom(s, i + 1)

DigitRuns(s) == DigitRunsFrom(s, 1)

\* does \b<prefix>\d{lo,hi}\b match the whole run r
RunMatches(r, prefix, lo, hi) ==
  /\ StartsWith(r, prefix)
  /\ Len(r) - Len(prefix) >= lo
  /\ Len(r) - Len(prefix) <= hi

\* the texts of the runs from the k-th on that \b<prefix>\d{lo,hi}\b matches
RECURSIVE MatchingRuns(_, _, _, _, _)
MatchingRuns(runs, k, prefix, lo, hi) ==
  IF k > Len(runs) THEN <<>>
  ELSE (IF RunMatches(runs[k].text, prefix, lo, hi) THEN <<runs[k].text>> ELSE <<>>)
         \o MatchingRuns(runs, k + 1, prefix, lo, hi)

\* re.findall(\b<prefix>\d{lo,hi}\b, s)
FindAll(s, prefix, lo, hi) == MatchingRuns(DigitRuns(s), 1, prefix, lo, hi)

(***************************************************************************)
(* tools/msisdn_validator.py                                               *)
(***************************************************************************)

\* MSISDNValidator.__init__: self.patterns, in dictionary order
patterns ==
  << [name |-> "full_international", prefix |-> "628", lo |-> 8, hi |-> 12],
     [name |-> "local_format", prefix |-> "08", lo |-> 8, hi |-> 12],
     [name |-> "without_prefix", prefix |-> "8", lo |-> 9, hi |-> 12],
     [name |-> "digits_only", prefix |-> "", lo |-> 10, hi |-> 15] >>

TelkomselPrefixes == {"811", "812", "813", "821", "822", "823", "851", "852", "853"}
IndosatPrefixes == {"814", "815", "816", "855", "856", "857", "858"}
XLPrefixes == {"817", "818", "819", "859", "877", "878"}
AxisPrefixes == {"838", "831", "832", "833"}
ThreePrefixes == {"895", "896", "897", "898", "899"}

\* MSISDNValidator.__init__: self.valid_prefixes
valid_prefixes ==
  {"811", "812", "813", "821", "822", "823", "851", "852", "853",
   "814", "815", "816", "855", "856", "857", "858",
   "817", "818", "819", "859", "877", "878",
   "838", "831", "832", "833",
   "895", "896", "897", "898", "899"}

\* a slip that removes only the country code of a 628... input
normalize_msisdn_strip62(msisdn) ==
  LET unplus(text) == IF StartsWith(text, "+") THEN DropFirst(text, 1) ELSE text
      strip_code(digits_only) ==
        IF StartsWith(digits_only, "628") THEN DropFirst(digits_only, 2)
        ELSE IF StartsWith(digits_only, "62") THEN DropFirst(digits_only, 2)
        ELSE IF StartsWith(digits_only, "08") THEN DropFirst(digits_only, 1)
        ELSE IF StartsWith(digits_only, "8") THEN digits_only
        ELSE NONE
      checked(clean_digits) ==
        IF clean_digits = NONE THEN NONE
        ELSE IF ~StartsWith(clean_digits, "8") \/ Len(clean_digits) < 10 THEN NONE
        ELSE "628" \o clean_digits
      normalized(digits_only) ==
        IF digits_only = "" THEN NONE ELSE checked(strip_code(digits_only))
  IN  normalized(DigitsOnly(unplus(Strip(msisdn))))

\* MSISDNValidator._normalize_msisdn
normalize_msisdn(msisdn) ==
  LET unplus(text) == IF StartsWith(text, "+") THEN DropFirst(text, 1) ELSE text
      strip_code(digits_only) ==
        IF StartsWith(digits_only, "628") THEN DropFirst(digits_only, 3)
        ELSE IF StartsWith(digits_only, "62") THEN DropFirst(digits_only, 2)
        ELSE IF StartsWith(digits_only, "08") THEN DropFirst(digits_only, 1)
        ELSE IF StartsWith(digits_only, "8") THEN digits_only
        ELSE NONE
      checked(clean_digits) ==
        IF clean_digits = NONE THEN NONE
        ELSE IF ~StartsWith(clean_digits, "8") \/ Len(clean_digits) < 10 THEN NONE
        ELSE "628" \o clean_digits
      normalized(digits_only) ==
        IF digits_only = "" THEN NONE ELSE checked(strip_code(digits_only))
  IN  normalized(DigitsOnly(unplus(Strip(msisdn))))

\* MSISDNValidator.normalize_for_api
normalize_for_api(msisdn) ==
  LET digits_only == DigitsOnly(msisdn)
  IN  IF digits_only = "" THEN NONE
      ELSE IF StartsWith(digits_only, "628") THEN DropFirst(digits_only, 2)
      ELSE IF StartsWith(digits_only, "08") THEN DropFirst(digits_only, 1)
      ELSE IF StartsWith(digits_only, "8") /\ Len(digits_only) >= 10 THEN digits_only
      ELSE IF Len(digits_only) >= 10 THEN "8" \o digits_only
      ELSE NONE

\* MSISDNValidator._is_valid_operator
is_valid_operator(msisdn) ==
  IF ~StartsWith(msisdn, "628") THEN FALSE
  ELSE IF Len(msisdn) < 12 \/ Len(msisdn) > 15 THEN FALSE
  ELSE Sub(msisdn, 4, 6) \in valid_prefixes

\* MSISDNValidator._get_operator_name
get_operator_name(prefix) ==
  IF prefix \in {"811", "812", "813", "821", "822", "823", "851", "852", "853"}
  THEN "Telkomsel"
  ELSE IF prefix \in {"814", "815", "816", "855", "856", "857", "858"}
  THEN "Indosat"
  ELSE IF prefix \in {"817", "818", "819", "859", "877", "878"}
  THEN "XL Axiata"
  ELSE IF prefix \in {"838", "831", "832", "833"}
  THEN "Axis"
  ELSE IF prefix \in {"895", "896", "897", "898", "899"}
  THEN "Three"
  ELSE "Unknown"

\* MSISDNValidator._get_display_format
get_display_format(msisdn) ==
  IF Len(msisdn) >= 12
  THEN Sub(msisdn, 1, 3) \o "-" \o Sub(msisdn, 4, 6) \o "-"
       \o Sub(msisdn, 7, 9) \o "-" \o DropFirst(msisdn, 9)
  ELSE msisdn

\* the record of a number that was not validated
NoValidation ==
  [valid |-> FALSE, normalized |-> NONE, operator |-> NONE,
   format |-> NONE, error |-> NONE]

\* MSISDNValidator.validate_msisdn
validate_msisdn(msisdn) ==
  LET validation(normalized) ==
        IF normalized = NONE
        THEN [valid |-> FALSE, normalized |-> NONE, operator |-> NONE,
              format |-> NONE, error |-> "Invalid MSISDN format"]
        ELSE IF ~is_valid_operator(normalized)
        THEN [valid |-> FALSE, normalized |-> normalized, operator |-> NONE,
              format |-> NONE, error |-> "Invalid operator or number length"]
        ELSE [valid |-> TRUE, normalized |-> normalized,
              operator |-> get_operator_name(Sub(normalized, 4, 6)),
              format |-> get_display_format(normalized), error |-> NONE]
  IN  validation(normalize_msisdn(msisdn))

\* an operator check that looks only at the validity of the number
is_telkomsel_number_any_operator(msisdn) == validate_msisdn(msisdn).valid

\* MSISDNValidator.is_telkomsel_number
is_telkomsel_number(msisdn) ==
  LET telkomsel(validation) == validation.valid /\ validation.operator = "Telkomsel"
  IN  telkomsel(validate_msisdn(msisdn))

\* extract_msisdn: the matches of the patterns from the p-th on, in order
\* of preference
RECURSIVE pattern_matches(_, _)
pattern_matches(text, p) ==
  IF p > Len(patterns) THEN <<>>
  ELSE FindAll(text, patterns[p].prefix, patterns[p].lo, patterns[p].hi)
       \o pattern_matches(text, p + 1)

\* extract_msisdn: a normalized match is returned when its operator is valid
valid_or_none(normalized) ==
  IF normalized # NONE /\ is_valid_operator(normalized) THEN normalized ELSE NONE

\* extract_msisdn: the first of the matches from the k-th on that is returned
RECURSIVE first_valid(_, _)
first_valid(matches, k) ==
  IF k > Len(matches) THEN NONE
  ELSE IF valid_or_none(normalize_msisdn(matches[k])) # NONE
  THEN valid_or_none(normalize_msisdn(matches[k]))
  ELSE first_valid(matches, k + 1)

\* MSISDNValidator.extract_msisdn
extract_msisdn(text0) == first_valid(pattern_matches(Strip(text0), 1), 1)

\* SmartCareWorkflow._convert_to_api_format
convert_to_api_format(normalized_msisdn) ==
  IF StartsWith(normalized_msisdn, "628")
  THEN DropFirst(normalized_msisdn, 3)
  ELSE normalized_msisdn


(***************************************************************************)
(* Regular-expression helpers for the labelled lines of the external       *)
(* reasoner's answers.                                                     *)
(***************************************************************************)

\* \s*
RECURSIVE SkipWs(_, _)
SkipWs(s, i) == IF i <= Len(s) /\ Ch(s, i) \in Whitespace THEN SkipWs(s, i + 1) ELSE i

\* the longest run of characters of class cls that starts at i ("" if none)
RECURSIVE TakeWhile(_, _, _)
TakeWhile(s, i, cls) ==
  IF i <= Len(s) /\ Ch(s, i) \in cls
  THEN Ch(s, i) \o TakeWhile(s, i + 1, cls)
  ELSE ""

\* the characters from i up to the next line break
RECURSIVE TakeLine(_, _)
TakeLine(s, i) ==
  IF i <= Len(s) /\ Ch(s, i) # "\n"
  THEN Ch(s, i) \o TakeLine(s, i + 1)
  ELSE ""

WordChars == DigitChars \cup LowerLetters \cup UpperLetters \cup {"_"}

\* re.search(label \s* (cls+), s): group 1 of the leftmost match, NONE
\* when there is no match
SearchLabel(s, label, cls) ==
  LET Group(i) == TakeWhile(s, SkipWs(s, i + Len(label)), cls)
      Hit(i) == Sub(s, i, i + Len(label) - 1) = label /\ Group(i) # ""
      leftmost(hits) ==
        IF hits = {} THEN NONE
        ELSE Group(CHOOSE k \in hits : \A m \in hits : k <= m)
  IN  leftmost({ i \in 1..(Len(s) - Len(label) + 1) : Hit(i) })

\* int(s) for a string of digits
DigitValue(c) ==
  CASE c = "0" -> 0 [] c = "1" -> 1 [] c = "2" -> 2 [] c = "3" -> 3
    [] c = "4" -> 4 [] c = "5" -> 5 [] c = "6" -> 6 [] c = "7" -> 7
    [] c = "8" -> 8 [] c = "9" -> 9

RECURSIVE ParseInt(_)
ParseInt(s) ==
  IF s = "" THEN 0
  ELSE 10 * ParseInt(Sub(s, 1, Len(s) - 1)) + DigitValue(Ch(s, Len(s)))

\* float(s) for s made of digits and dots, in hundredths; FloatError when
\* float raises ValueError (no digit, or more than one dot)
FloatError == -1

ParseFloat(s) ==
  LET hundredths(d) ==
        100 * ParseInt(Sub(s, 1, d - 1)) + ParseInt(Sub(s \o "00", d + 1, d + 2))
      parsed(dots) ==
        IF Cardinality(dots) > 1 \/ DigitsOnly(s) = "" THEN FloatError
        ELSE IF dots = {} THEN 100 * ParseInt(s)
        ELSE hundredths(CHOOSE i \in dots : TRUE)
  IN  parsed({ i \in 1..Len(s) : Ch(s, i) = "." })

(***************************************************************************)
(* crews/simplified_crew.py: intent classification                         *)
(***************************************************************************)

\* SimplifiedCrew._classify_query: the system prompt sentinels
system_prompt_markers == {"### Task:", "follow-up questions"}

\* does msisdn_pattern match one of the runs of digits of the query
msisdn_pattern_matches(user_query, runs) ==
  \E k \in 1..Len(runs) :
    \/ RunMatches(runs[k].text, "08", 8, 11)
    \/ RunMatches(runs[k].text, "628", 8, 11)
    \/ /\ RunMatches(runs[k].text, "628", 8, 11)
       /\ runs[k].start >= 3
       /\ Ch(user_query, runs[k].start - 1) = "+"
       /\ IsWordChar(Ch(user_query, runs[k].start - 2))

\* SimplifiedCrew._classify_query: msisdn_pattern,
\* \b(08\d{8,11}|628\d{8,11}|\+628\d{8,11})\b
msisdn_pattern_search(user_query) ==
  msisdn_pattern_matches(user_query, DigitRuns(user_query))

\* SimplifiedCrew._classify_query: knowledge_keywords
classify_knowledge_keywords ==
  {"parameter", "cara", "bagaimana", "gimana", "jelaskan", "explain",
   "apa itu", "what is", "pengertian", "definisi", "arti",
   "tutorial", "panduan", "guide", "langkah", "prosedur",
   "troubleshoot", "troubleshooting", "solusi", "solve"}

\* SessionManager.get_context_for_followup: followup_patterns
followup_patterns ==
  {"contoh", "contohnya", "yang belum", "yg belum", "yang masih", "yg masih",
   "detail", "jelaskan", "bagaimana", "yang mana", "tersebut", "itu", "tadi",
   "diatas", "belum solve", "masih pending", "salah satu", "dari sana",
   "lokasi sama", "tempat itu", "disitu", "yang tadi", "seperti apa",
   "gimana", "mana aja", "ada yang", "bisa kasih", "tolong tunjukkan"}

\* SimplifiedCrew._fallback_classification: the keyword tables
fallback_knowledge_keywords ==
  {"apa itu", "jelaskan", "explain", "what is", "pengertian",
   "definisi", "arti", "maksud", "cara", "bagaimana", "how to",
   "troubleshoot", "sop", "panduan", "guide"}

telco_context_keywords ==
  {"internet", "wifi", "jaringan", "network", "signal", "sinyal",
   "keluhan", "complaint", "tiket", "ticket", "telkomsel",
   "provider", "operator", "telekomunikasi", "telco"}

system_keywords ==
  {"siapa kamu", "kamu apa", "apa kemampuan", "bisa apa",
   "sistem sehat", "ada masalah", "status sistem", "hello", "hi"}

off_topic_keywords ==
  {"who is", "who are", "biography", "biografi",
   "sejarah", "history", "politik", "political",
   "nasi", "padang", "makan", "cafe", "restoran", "makanan", "food",
   "film", "movie", "musik", "music", "game", "gaming",
   "basket", "football", "sepak bola", "olahraga", "sports",
   "cuaca", "weather", "hujan", "panas", "dingin",
   "beli", "jual", "shopping", "belanja", "harga", "price"}

complaint_keywords ==
  {"keluhan", "masalah", "complaint", "tiket", "ticket", "berapa", "contoh",
   "internet", "wifi", "jaringan", "summary", "ringkasan", "jakarta", "bandung"}

\* the intent categories a classification may carry
IntentCategories ==
  {"system_prompt", "smartcare_query", "knowledge_query", "followup_enhanced",
   "ticket_analysis", "system_inquiry", "off_topic"}

NoContext ==
  [intent |-> NONE, inherit_location |-> FALSE, inherit_time |-> FALSE,
   location |-> "", timeframe |-> "", filters |-> "",
   complete_geo_entities |-> <<>>]

\* a classification result; confidence and relevance_score in hundredths,
\* tier is the decision tier that produced it
Classification(category, confidence, relevance, reasoning, tier) ==
  [intent_category |-> category, confidence |-> confidence,
   relevance_score |-> relevance, reasoning |-> reasoning, tier |-> tier,
   enhanced_context |-> NoContext]

\* validate_query: the verdict, given whether a number was extracted
query_validation(has_msisdn) ==
  [is_smartcare_query |-> has_msisdn, has_msisdn |-> has_msisdn,
   confidence |-> IF has_msisdn THEN 90 ELSE 10]

\* SmartCareQueryParser.validate_query
validate_query(query) == query_validation(extract_msisdn(query) # NONE)

\* _fallback_classification: the rules, given the lowered query and the
\* verdict of validate_query
fallback_rules(query_lower, validation) ==
  IF validation.is_smartcare_query
  THEN Classification("smartcare_query", validation.confidence, 90,
                      "Fallback: MSISDN detected in query", "fallback")
  ELSE IF ContainsAny(query_lower, fallback_knowledge_keywords)
  THEN IF ContainsAny(query_lower, telco_context_keywords)
       THEN Classification("knowledge_query", 90, 90,
              "Fallback: knowledge keywords with telco context", "fallback")
       ELSE Classification("off_topic", 80, 20,
              "Fallback: knowledge keywords without telco context", "fallback")
  ELSE IF ContainsAny(query_lower, system_keywords)
  THEN Classification("system_inquiry", 95, 95,
                      "Fallback: system inquiry keywords", "fallback")
  ELSE IF ContainsAny(query_lower, off_topic_keywords)
  THEN Classification("off_topic", 95, 10,
                      "Fallback: off-topic keywords detected", "fallback")
  ELSE IF ContainsAny(query_lower, complaint_keywords)
  THEN Classification("ticket_analysis", 80, 80,
                      "Fallback: complaint keywords detected", "fallback")
  ELSE Classification("off_topic", 70, 30,
                      "Fallback: no clear classification patterns found",
                      "fallback")

\* SimplifiedCrew._fallback_classification
fallback_classification(user_query) ==
  fallback_rules(Lower(user_query), validate_query(user_query))

\* the answers of the external reasoner: kind is "exception" (connection
\* error or timeout), "status" (an answer that is not 200), "nojson" (200
\* without a response field) or "ok" (200 with the text)
LLMAnswer(kind, text) == [kind |-> kind, text |-> text]

\* raised by _llm_classify
LLM_RAISES == Classification("<raise>", 0, 0, "", "llm")

\* the variant of _llm_classify that hands an unknown label through
llm_classify_unmapped(llm) ==
  LET label(classification_match) ==
        IF classification_match # NONE THEN classification_match ELSE "OFF_TOPIC"
      value(confidence_match) ==
        IF confidence_match # NONE THEN ParseFloat(confidence_match) ELSE 70
      result(classification, confidence) ==
        IF confidence = FloatError THEN LLM_RAISES
        ELSE IF classification = "COMPLAINT"
        THEN Classification("ticket_analysis", confidence, confidence, "LLM", "llm")
        ELSE Classification(Lower(classification), confidence, confidence,
                            "LLM", "llm")
      parsed(response_text) ==
        result(label(SearchLabel(Upper(response_text), "CLASSIFICATION:", WordChars)),
               value(SearchLabel(response_text, "CONFIDENCE:", DigitChars \cup {"."})))
  IN  IF llm.kind # "ok" THEN LLM_RAISES ELSE parsed(Strip(llm.text))

\* SimplifiedCrew._llm_classify
llm_classify(llm) ==
  LET label(classification_match) ==
        IF classification_match # NONE THEN classification_match ELSE "OFF_TOPIC"
      value(confidence_match) ==
        IF confidence_match # NONE THEN ParseFloat(confidence_match) ELSE 70
      result(classification, confidence) ==
        IF confidence = FloatError THEN LLM_RAISES
        ELSE IF classification = "COMPLAINT"
        THEN Classification("ticket_analysis", confidence, confidence, "LLM", "llm")
        ELSE IF classification = "KNOWLEDGE_QUERY"
        THEN Classification("knowledge_query", confidence, confidence, "LLM", "llm")
        ELSE IF classification = "SYSTEM_INQUIRY"
        THEN Classification("system_inquiry", confidence, confidence, "LLM", "llm")
        ELSE IF classification = "SMARTCARE"
        THEN Classification("smartcare_query", confidence, confidence, "LLM", "llm")
        ELSE Classification("off_topic", confidence, 100 - confidence, "LLM", "llm")
      parsed(response_text) ==
        result(label(SearchLabel(Upper(response_text), "CLASSIFICATION:", WordChars)),
               value(SearchLabel(response_text, "CONFIDENCE:", DigitChars \cup {"."})))
  IN  IF llm.kind # "ok" THEN LLM_RAISES ELSE parsed(Strip(llm.text))

(***************************************************************************)
(* tools/time_parser.py                                                    *)
(*                                                                         *)
(* A datetime is the number of minutes since 1970-01-01 00:00 (seconds are *)
(* dropped: every value the parser hands out is formatted to the minute).  *)
(* strftime and strptime are computed on the proleptic Gregorian calendar. *)
(***************************************************************************)
MinutesPerDay == 1440

SecondsPerMinute == 60

\* days from 1970-01-01 to the civil date y-m-d
days_from_civil(y, m, d) ==
  LET of_doe(era, doe) == era * 146097 + doe - 719468
      of_doy(era, yoe, doy) ==
        of_doe(era, yoe * 365 + yoe \div 4 - yoe \div 100 + doy)
      of_mp(era, yoe, mp) == of_doy(era, yoe, (153 * mp + 2) \div 5 + d - 1)
      of_era(yy, era) ==
        of_mp(era, yy - era * 400, IF m > 2 THEN m - 3 ELSE m + 9)
      of_yy(yy) == of_era(yy, yy \div 400)
  IN  of_yy(IF m <= 2 THEN y - 1 ELSE y)

\* the civil date of a day number
civil_from_days(z) ==
  LET date(yoe, era, m, d) ==
        [year |-> yoe + era * 400 + (IF m <= 2 THEN 1 ELSE 0), month |-> m, day |-> d]
      of_mp(yoe, era, doy, mp) ==
        date(yoe, era, IF mp < 10 THEN mp + 3 ELSE mp - 9,
             doy - (153 * mp + 2) \div 5 + 1)
      of_doy(yoe, era, doy) == of_mp(yoe, era, doy, (5 * doy + 2) \div 153)
      of_yoe(era, doe, yoe) ==
        of_doy(yoe, era, doe - (365 * yoe + yoe \div 4 - yoe \div 100))
      of_doe(era, doe) ==
        of_yoe(era, doe,
               (doe - doe \div 1460 + doe \div 36524 - doe \div 146096) \div 365)
      of_era(zz, era) == of_doe(era, zz - era * 146097)
      of_zz(zz) == of_era(zz, zz \div 146097)
  IN  of_zz(z + 719468)

IsLeap(y) == (y % 4 = 0 /\ y % 100 # 0) \/ y % 400 = 0

DaysInMonth(y, m) ==
  IF m = 2 THEN (IF IsLeap(y) THEN 29 ELSE 28)
  ELSE IF m \in {4, 6, 9, 11} THEN 30 ELSE 31

\* does datetime(y, m, d) accept the date
IsValidDate(y, m, d) ==
  /\ y >= 1 /\ y <= 9999
  /\ m >= 1 /\ m <= 12
  /\ d >= 1 /\ d <= DaysInMonth(y, m)

\* datetime(y, m, d, hh, mm)
DateTime(y, m, d, hh, mm) ==
  days_from_civil(y, m, d) * MinutesPerDay + hh * 60 + mm

\* datetime.min
DateTimeMin == DateTime(1, 1, 1, 0, 0)

DayOf(t) == t \div MinutesPerDay
MinuteOfDay(t) == t % MinutesPerDay

\* str(n) for n >= 0
DigitChar(d) ==
  CASE d = 0 -> "0" [] d = 1 -> "1" [] d = 2 -> "2" [] d = 3 -> "3"
    [] d = 4 -> "4" [] d = 5 -> "5" [] d = 6 -> "6" [] d = 7 -> "7"
    [] d = 8 -> "8" [] d = 9 -> "9"

RECURSIVE IntToStr(_)
IntToStr(n) ==
  IF n < 10 THEN DigitChar(n % 10) ELSE IntToStr(n \div 10) \o DigitChar(n % 10)

\* %m, %d, %H, %M of strftime
Pad2(n) == IF n < 10 THEN "0" \o IntToStr(n) ELSE IntToStr(n)

\* strftime("%Y-%m-%d"); %Y is not padded
StrfDate(t) ==
  LET format(c) == IntToStr(c.year) \o "-" \o Pad2(c.month) \o "-" \o Pad2(c.day)
  IN  format(civil_from_days(DayOf(t)))

\* strftime("%Y-%m-%d %H:%M")
Strftime(t) ==
  StrfDate(t) \o " " \o Pad2(MinuteOfDay(t) \div 60) \o ":" \o Pad2(MinuteOfDay(t) % 60)

AllDigits(s) == s # "" /\ \A i \in 1..Len(s) : IsDigit(Ch(s, i))

\* the value of a failed strptime
StrptimeError == -2000000000

\* datetime.strptime(s, "%Y-%m-%d %H:%M") for the strings the parser
\* produces: fields of fixed width, the year of four digits
Strptime(s) ==
  LET datetime(y, m, d, hh, mm) ==
        IF IsValidDate(y, m, d) /\ hh <= 23 /\ mm <= 59
        THEN DateTime(y, m, d, hh, mm)
        ELSE StrptimeError
  IN  IF \/ Len(s) # 16
         \/ ~AllDigits(Sub(s, 1, 4)) \/ Ch(s, 5) # "-"
         \/ ~AllDigits(Sub(s, 6, 7)) \/ Ch(s, 8) # "-"
         \/ ~AllDigits(Sub(s, 9, 10)) \/ Ch(s, 11) # " "
         \/ ~AllDigits(Sub(s, 12, 13)) \/ Ch(s, 14) # ":"
         \/ ~AllDigits(Sub(s, 15, 16))
      THEN StrptimeError
      ELSE datetime(ParseInt(Sub(s, 1, 4)), ParseInt(Sub(s, 6, 7)),
                    ParseInt(Sub(s, 9, 10)), ParseInt(Sub(s, 12, 13)),
                    ParseInt(Sub(s, 15, 16)))

\* every count above HugeCount overflows the date arithmetic of the parser
HugeCount == 2000000000

\* int(s) for a run of digits, cut off at HugeCount
CappedInt(s) ==
  LET RECURSIVE NoZeros(_)
      NoZeros(t) == IF Len(t) > 1 /\ Ch(t, 1) = "0" THEN NoZeros(DropFirst(t, 1)) ELSE t
      capped(z) ==
        IF Len(z) <= 9 THEN ParseInt(z)
        ELSE IF Len(z) = 10 /\ Ch(z, 1) = "1"
        THEN 1000000000 + ParseInt(DropFirst(z, 1))
        ELSE HugeCount
  IN  capped(NoZeros(s))

\* the position after the match of  unit s? \s* (yang\s+)? lalu  at i,
\* 0 when it does not match
AgoTailAt(text, i, units) ==
  LET lalu_after_yang(c, d) ==
        /\ Sub(text, c, c + 3) = "yang"
        /\ d > c + 4
        /\ Sub(text, d, d + 3) = "lalu"
      lalu_at(c) ==
        lalu_after_yang(c, SkipWs(text, c + 4)) \/ Sub(text, c, c + 3) = "lalu"
      Rest(b) == lalu_at(SkipWs(text, b))
      after_unit(a) ==
        IF Ch(text, a) = "s" /\ Rest(a + 1) THEN 1
        ELSE IF Rest(a) THEN 1 ELSE 0
      longest(unitHits) ==
        CHOOSE x \in unitHits : \A y \in unitHits : Len(x) >= Len(y)
      tail(unitHits) ==
        IF unitHits = {} THEN 0 ELSE after_unit(i + Len(longest(unitHits)))
  IN  tail({ u \in units : Sub(text, i, i + Len(u) - 1) = u })

\* the maximal runs of digits of a text, whatever surrounds them
RECURSIVE PlainRunsFrom(_, _)
PlainRunsFrom(s, i) ==
  IF i > Len(s) THEN <<>>
  ELSE IF IsDigit(Ch(s, i))
       THEN LET j == RunEnd(s, i)
            IN  << [text |-> Sub(s, i, j), start |-> i, stop |-> j] >>
                  \o PlainRunsFrom(s, j + 1)
       ELSE PlainRunsFrom(s, i + 1)

\* re.search(r'(\d+)\s*(u1|u2)s?\s*(yang\s+)?lalu', text): group 1 of the
\* leftmost match, NONE when there is none
SearchAgo(text, units) ==
  LET leftmost(runs, hits) ==
        IF hits = {} THEN NONE
        ELSE runs[CHOOSE k \in hits : \A m \in hits : k <= m].text
      search(runs) ==
        leftmost(runs,
                 { k \in 1..Len(runs) :
                     AgoTailAt(text, SkipWs(text, runs[k].stop + 1), units) # 0 })
  IN  search(PlainRunsFrom(text, 1))

\* re.search(r'jam\s*(\d{1,2})', text): group 1, NONE when there is none
SearchSpecificHour(text) ==
  LET Hit(i) == /\ Sub(text, i, i + 2) = "jam"
                /\ IsDigit(Ch(text, SkipWs(text, i + 3)))
      digits(j) ==
        IF j < Len(text) /\ IsDigit(Ch(text, j + 1))
        THEN Sub(text, j, j + 1) ELSE Ch(text, j)
      leftmost(hits) ==
        IF hits = {} THEN NONE
        ELSE digits(SkipWs(text, (CHOOSE k \in hits : \A m \in hits : k <= m) + 3))
  IN  leftmost({ i \in 1..(Len(text) - 3) : Hit(i) })

\* re.search(r'(\d{1,2})[:.:](\d{2})', text): <<group 1, group 2>>, <<>> when
\* there is no match
SearchSpecificTime(text) ==
  LET Sep(i) == i <= Len(text) /\ Ch(text, i) \in {":", "."}
      Dig(i) == i <= Len(text) /\ IsDigit(Ch(text, i))
      Two(i) == Dig(i) /\ Dig(i + 1) /\ Sep(i + 2) /\ Dig(i + 3) /\ Dig(i + 4)
      One(i) == Dig(i) /\ Sep(i + 1) /\ Dig(i + 2) /\ Dig(i + 3)
      groups(i, two) ==
        IF two THEN <<Sub(text, i, i + 1), Sub(text, i + 3, i + 4)>>
        ELSE <<Ch(text, i), Sub(text, i + 2, i + 3)>>
      match(i) == groups(i, Two(i))
      leftmost(hits) ==
        IF hits = {} THEN <<>>
        ELSE match(CHOOSE k \in hits : \A m \in hits : k <= m)
  IN  leftmost({ i \in 1..Len(text) : Two(i) \/ One(i) })

\* re.search(r'a\s+b', text)
SearchTwoWords(text, a, b) ==
  LET second(i, j) == j > i + Len(a) /\ Sub(text, j, j + Len(b) - 1) = b
  IN  \E i \in 1..(Len(text) - Len(a)) :
        /\ Sub(text, i, i + Len(a) - 1) = a
        /\ second(i, SkipWs(text, i + Len(a)))

\* re.search(r'(\d{1,2})[/-](\d{1,2})[/-](\d{2,4})', text): the three
\* groups, <<>> when there is no match
SearchDateFormat(text) ==
  LET Sep(i) == i <= Len(text) /\ Ch(text, i) \in {"/", "-"}
      Digs(i, n) == i + n - 1 <= Len(text) /\ AllDigits(Sub(text, i, i + n - 1))
      \* w holds the widths of the three groups
      At(i, w) ==
        /\ Digs(i, w[1]) /\ Sep(i + w[1])
        /\ Digs(i + w[1] + 1, w[2]) /\ Sep(i + w[1] + 1 + w[2])
        /\ Digs(i + w[1] + w[2] + 2, w[3])
      \* the alternatives in the order the matcher tries them
      order == << <<2, 2, 4>>, <<2, 2, 3>>, <<2, 2, 2>>,
                  <<2, 1, 4>>, <<2, 1, 3>>, <<2, 1, 2>>,
                  <<1, 2, 4>>, <<1, 2, 3>>, <<1, 2, 2>>,
                  <<1, 1, 4>>, <<1, 1, 3>>, <<1, 1, 2>> >>
      first(hs) == CHOOSE h \in hs : \A m \in hs : h <= m
      groups(i, w) ==
        << Sub(text, i, i + w[1] - 1),
           Sub(text, i + w[1] + 1, i + w[1] + w[2]),
           Sub(text, i + w[1] + w[2] + 2, i + w[1] + w[2] + w[3] + 1) >>
      match(i) == groups(i, order[first({ k \in 1..Len(order) : At(i, order[k]) })])
      leftmost(hits) == IF hits = {} THEN <<>> ELSE match(first(hits))
  IN  leftmost({ i \in 1..Len(text) : \E k \in 1..Len(order) : At(i, order[k]) })

\* a time range is the pair of its formatted ends; NoRange is Python's None
\* and RangeRaises the OverflowError of a date before datetime.min
NoRange == <<>>
RangeRaises == <<"<raise>">>

\* TimeParser.default_ranges, in minutes of the day
default_ranges ==
  [full_day |-> [start |-> 0, end |-> 23 * 60 + 55],
   morning |-> [start |-> 6 * 60, end |-> 11 * 60 + 59],
   afternoon |-> [start |-> 12 * 60, end |-> 17 * 60 + 59],
   evening |-> [start |-> 18 * 60, end |-> 22 * 60 + 59],
   night |-> [start |-> 23 * 60, end |-> 5 * 60 + 59]]

\* strftime("%Y-%m-%d 00:00") and strftime("%Y-%m-%d 23:55") of a datetime
FullDay(t) ==
  LET range(day) == << day \o " 00:00", day \o " 23:55" >>
  IN  range(StrfDate(t))

\* TimeParser._get_time_of_day_range
get_time_of_day_range(date, time_period) ==
  << Strftime(DayOf(date) * MinutesPerDay + default_ranges[time_period].start),
     Strftime(IF time_period = "night"
                   /\ default_ranges[time_period].end < default_ranges[time_period].start
              THEN DayOf(date) * MinutesPerDay + MinutesPerDay
                     + default_ranges[time_period].end
              ELSE DayOf(date) * MinutesPerDay + default_ranges[time_period].end) >>

\* re.search(r'(\d{4}-\d{2}-\d{2} \d{2}:\d{2},\d{4}-\d{2}-\d{2} \d{2}:\d{2})', s):
\* the match, NONE when there is none
SearchDateLine(s) ==
  LET Stamp(i) ==
        /\ AllDigits(Sub(s, i, i + 3)) /\ Ch(s, i + 4) = "-"
        /\ AllDigits(Sub(s, i + 5, i + 6)) /\ Ch(s, i + 7) = "-"
        /\ AllDigits(Sub(s, i + 8, i + 9)) /\ Ch(s, i + 10) = " "
        /\ AllDigits(Sub(s, i + 11, i + 12)) /\ Ch(s, i + 13) = ":"
        /\ AllDigits(Sub(s, i + 14, i + 15))
        /\ i + 15 <= Len(s)
      Hit(i) == Stamp(i) /\ Ch(s, i + 16) = "," /\ Stamp(i + 17)
      match(i) == Sub(s, i, i + 32)
      leftmost(hits) ==
        IF hits = {} THEN NONE
        ELSE match(CHOOSE k \in hits : \A m \in hits : k <= m)
  IN  leftmost({ i \in 1..(Len(s) - 32) : Hit(i) })

\* _extract_date_with_llm: the two stamps of the line, when strptime
\* accepts both
date_line_range(date_line) ==
  IF date_line = NONE THEN NoRange
  ELSE IF Strptime(Sub(date_line, 1, 16)) = StrptimeError
            \/ Strptime(Sub(date_line, 18, 33)) = StrptimeError
  THEN NoRange
  ELSE << Sub(date_line, 1, 16), Sub(date_line, 18, 33) >>

\* TimeParser._extract_date_with_llm; llm is the answer of the reasoner
extract_date_with_llm(llm) ==
  IF llm.kind # "ok" THEN NoRange
  ELSE date_line_range(SearchDateLine(Strip(llm.text)))

\* TimeParser._try_parse_patterns, the patterns that need no reasoner;
\* <<"<llm>">> when none of them decides
LlmNeeded == <<"<llm>">>

\* the hour that starts at start_time
HourFrom(start_time) == << Strftime(start_time), Strftime(start_time + 59) >>

\* thirty minutes to either side of target_time
HalfHourAround(target_time) ==
  << Strftime(target_time - 30), Strftime(target_time + 30) >>

\* _try_parse_patterns, hours_ago: hours is int(match.group(1))
hours_ago_range(hours, now) ==
  IF hours > (now - DateTimeMin) \div 60 THEN RangeRaises
  ELSE HourFrom((now - hours * 60) - ((now - hours * 60) % 60))

\* _try_parse_patterns, minutes_ago
minutes_ago_range(minutes, now) ==
  IF minutes > (now - DateTimeMin) - 30 THEN RangeRaises
  ELSE HalfHourAround(now - minutes)

\* _try_parse_patterns, days_ago
days_ago_range(days, now) ==
  IF days > (now - DateTimeMin) \div MinutesPerDay THEN RangeRaises
  ELSE FullDay(now - days * MinutesPerDay)

\* _try_parse_patterns, date_format: the year of two digits is of this century
date_format_year(y) == IF Len(y) = 2 THEN 2000 + ParseInt(y) ELSE ParseInt(y)

\* _try_parse_patterns, date_format: a date datetime() rejects is left to the
\* reasoner
date_format_range(day, month, year) ==
  IF IsValidDate(year, month, day)
  THEN FullDay(DateTime(year, month, day, 0, 0))
  ELSE LlmNeeded

\* _try_parse_patterns after its regular expressions were searched: hoursM,
\* minutesM, hourM, timeM, daysM and dateM are the matches of hours_ago,
\* minutes_ago, specific_hour, specific_time, days_ago and date_format
fixed_pattern_range(text, now, hoursM, minutesM, hourM, timeM, daysM, dateM) ==
  IF hoursM # NONE THEN hours_ago_range(CappedInt(hoursM), now)
  ELSE IF minutesM # NONE THEN minutes_ago_range(CappedInt(minutesM), now)
  ELSE IF hourM # NONE /\ ParseInt(hourM) <= 23
  THEN HourFrom(DayOf(now) * MinutesPerDay + ParseInt(hourM) * 60)
  ELSE IF timeM # <<>> /\ ParseInt(timeM[1]) <= 23 /\ ParseInt(timeM[2]) <= 59
  THEN HalfHourAround(DayOf(now) * MinutesPerDay
                        + ParseInt(timeM[1]) * 60 + ParseInt(timeM[2]))
  ELSE IF SearchTwoWords(text, "hari", "ini")
            \/ Contains(text, "today") \/ Contains(text, "sekarang")
  THEN FullDay(now)
  ELSE IF Contains(text, "kemarin") \/ Contains(text, "yesterday")
  THEN FullDay(now - MinutesPerDay)
  ELSE IF daysM # NONE THEN days_ago_range(CappedInt(daysM), now)
  ELSE IF \/ SearchTwoWords(text, "pagi", "ini")
          \/ SearchTwoWords(text, "pagi", "tadi")
          \/ SearchTwoWords(text, "this", "morning")
  THEN get_time_of_day_range(now, "morning")
  ELSE IF \/ SearchTwoWords(text, "siang", "ini")
          \/ SearchTwoWords(text, "siang", "tadi")
          \/ SearchTwoWords(text, "this", "afternoon")
  THEN get_time_of_day_range(now, "afternoon")
  ELSE IF \/ SearchTwoWords(text, "sore", "ini")
          \/ SearchTwoWords(text, "sore", "tadi")
          \/ SearchTwoWords(text, "this", "evening")
  THEN get_time_of_day_range(now, "evening")
  ELSE IF SearchTwoWords(text, "malam", "tadi")
            \/ SearchTwoWords(text, "last", "night")
  THEN get_time_of_day_range(now - MinutesPerDay, "night")
  ELSE IF dateM # <<>>
  THEN date_format_range(ParseInt(dateM[1]), ParseInt(dateM[2]),
                         date_format_year(dateM[3]))
  ELSE LlmNeeded

try_parse_fixed_patterns(text, now) ==
  fixed_pattern_range(text, now,
                      SearchAgo(text, {"jam", "hour"}),
                      SearchAgo(text, {"menit", "minute"}),
                      SearchSpecificHour(text),
                      SearchSpecificTime(text),
                      SearchAgo(text, {"hari", "day"}),
                      SearchDateFormat(text))

\* _try_parse_patterns, the last step: fixed is what the patterns gave
range_or_llm(fixed, llm) ==
  IF fixed = LlmNeeded THEN extract_date_with_llm(llm) ELSE fixed

\* TimeParser._try_parse_patterns
try_parse_patterns(text, now, llm) ==
  range_or_llm(try_parse_fixed_patterns(text, now), llm)

\* does _try_parse_patterns consult the reasoner for this text
time_needs_llm(text, now) ==
  try_parse_fixed_patterns(Strip(Lower(text)), now) = LlmNeeded

\* parse_time_expression: the answer for the result of _try_parse_patterns
time_expression_result(result, now) ==
  IF result = RangeRaises
  THEN [raises |-> TRUE, startTime |-> NONE, endTime |-> NONE,
        success |-> FALSE, fallback |-> NONE]
  ELSE IF result # NoRange
  THEN [raises |-> FALSE, startTime |-> result[1], endTime |-> result[2],
        success |-> TRUE, fallback |-> NONE]
  ELSE [raises |-> FALSE, startTime |-> FullDay(now)[1],
        endTime |-> FullDay(now)[2], success |-> FALSE, fallback |-> "today"]

\* TimeParser.parse_time_expression; raises tells that the call ended in an
\* OverflowError
parse_time_expression(text0, now, llm) ==
  time_expression_result(try_parse_patterns(Strip(Lower(text0)), now, llm), now)

\* a slip that tests the future before the order of the two ends
time_range_validation_future_first(start_dt, end_dt, now, frac) ==
  IF start_dt = StrptimeError \/ end_dt = StrptimeError
  THEN [valid |-> FALSE, error |-> "Invalid time format"]
  ELSE IF start_dt > now + MinutesPerDay
  THEN [valid |-> FALSE, error |-> "Time range cannot be in the future"]
  ELSE IF start_dt >= end_dt
  THEN [valid |-> FALSE, error |-> "Start time must be before end time"]
  ELSE IF \/ end_dt < now - 30 * MinutesPerDay
          \/ (frac /\ end_dt = now - 30 * MinutesPerDay)
  THEN [valid |-> FALSE, error |-> "Time range is too old (max 30 days ago)"]
  ELSE [valid |-> TRUE, error |-> NONE]

\* validate_time_range: the checks of the two parsed ends
time_range_validation(start_dt, end_dt, now, frac) ==
  IF start_dt = StrptimeError \/ end_dt = StrptimeError
  THEN [valid |-> FALSE, error |-> "Invalid time format"]
  ELSE IF start_dt >= end_dt
  THEN [valid |-> FALSE, error |-> "Start time must be before end time"]
  ELSE IF start_dt > now + MinutesPerDay
  THEN [valid |-> FALSE, error |-> "Time range cannot be in the future"]
  ELSE IF \/ end_dt < now - 30 * MinutesPerDay
          \/ (frac /\ end_dt = now - 30 * MinutesPerDay)
  THEN [valid |-> FALSE, error |-> "Time range is too old (max 30 days ago)"]
  ELSE [valid |-> TRUE, error |-> NONE]

\* TimeParser.validate_time_range; frac tells whether the clock reading has
\* a part below the minute
validate_time_range(start_time, end_time, now, frac) ==
  time_range_validation(Strptime(start_time), Strptime(end_time), now, frac)

(***************************************************************************)
(* tools/query_parser.py                                                   *)
(***************************************************************************)
\* SmartCareQueryParser.__init__: self.intent_keywords, in dictionary order
intent_keywords ==
  << <<"usage", {"usage", "penggunaan", "data", "kuota", "traffic", "konsumsi"}>>,
     <<"history", {"history", "riwayat", "histori", "record", "catatan"}>>,
     <<"detail", {"detail", "detil", "info", "informasi", "lengkap"}>>,
     <<"check", {"cek", "check", "lihat", "tampilkan", "show"}>>,
     <<"status", {"status", "kondisi", "keadaan", "situasi"}>>,
     <<"chart", {"chart", "grafik", "graph", "visualisasi", "diagram"}>> >>

\* _detect_intent: the first intent one of whose keywords the query holds
keyword_intent(query_lower, hits) ==
  IF hits # {}
  THEN intent_keywords[CHOOSE k \in hits : \A m \in hits : k <= m][1]
  ELSE IF ContainsAny(query_lower, {"berapa", "jumlah", "total"}) THEN "usage"
  ELSE "check"

\* _detect_intent on the lowered query
lowered_query_intent(query_lower) ==
  keyword_intent(query_lower,
                 { k \in 1..Len(intent_keywords) :
                     ContainsAny(query_lower, intent_keywords[k][2]) })

\* SmartCareQueryParser._detect_intent
parser_detect_intent(query) == lowered_query_intent(Lower(query))

NoTimeRange == [start_time |-> NONE, end_time |-> NONE, fallback |-> NONE]

\* parse_query: the result, given the extracted number and its validation,
\* the parsed time expression and its validation
parse_result(query, msisdn, validation, time_info, time_validation) ==
  LET msisdn_errors ==
        IF msisdn = NONE THEN << "No valid MSISDN found in query" >>
        ELSE IF ~validation.valid THEN << "Invalid MSISDN: " \o validation.error >>
        ELSE <<>>
      time_errors ==
        IF time_info.success /\ ~time_validation.valid
        THEN << "Invalid time range: " \o time_validation.error >>
        ELSE <<>>
      time_range ==
        IF time_info.success
        THEN IF time_validation.valid
             THEN [start_time |-> time_info.startTime,
                   end_time |-> time_info.endTime, fallback |-> NONE]
             ELSE NoTimeRange
        ELSE [start_time |-> time_info.startTime,
              end_time |-> time_info.endTime, fallback |-> time_info.fallback]
      errors == msisdn_errors \o time_errors
      has_msisdn == msisdn # NONE /\ validation.valid
      built == has_msisdn /\ time_range # NoTimeRange
  IN  IF time_info.raises
      THEN [raises |-> TRUE, success |-> FALSE, msisdn |-> NoValidation,
            time_range |-> NoTimeRange, intent |-> "check", errors |-> <<>>]
      ELSE [raises |-> FALSE,
            success |-> built /\ errors = <<>>,
            msisdn |-> IF has_msisdn THEN validation ELSE NoValidation,
            time_range |-> time_range,
            intent |-> parser_detect_intent(query),
            errors |-> errors]

\* parse_query after the number was extracted and the time expression parsed
parse_extracted(query, now, frac, msisdn, time_info) ==
  parse_result(query, msisdn,
               IF msisdn # NONE THEN validate_msisdn(msisdn) ELSE NoValidation,
               time_info,
               validate_time_range(time_info.startTime, time_info.endTime,
                                   now, frac))

\* SmartCareQueryParser.parse_query; now and frac are the clock reading,
\* llm the answer of the date reasoner.  raises tells that the call ended
\* in an exception of the time parser.
parse_query(query, now, frac, llm) ==
  parse_extracted(query, now, frac, extract_msisdn(query),
                  parse_time_expression(query, now, llm))

(***************************************************************************)
(* tools/telkomsel_api_client.py                                           *)
(*                                                                         *)
(* Time is datetime.now() in seconds.  A request to the token URL is       *)
(* answered with a token, with a body without AccessToken, with a status   *)
(* that is not 200, with a timeout or with another exception; a request to *)
(* the query URL with data (status 200), with status 401, with another     *)
(* status, with a timeout or with another exception.                       *)
(***************************************************************************)
\* timedelta(hours=1), the life of a token
token_lifetime == 3600

\* timedelta(minutes=5), how long before its expiry a token is replaced
token_refresh_margin == 300

\* the timeouts of the two requests, and the sleep before the retry
token_timeout == 10

lookup_timeout == 30

retry_sleep == 2

max_retries == 2

\* token_expires_at of a client that never got a token
NoExpiry == -1

\* TelkomselAPIClient.__init__
NoClient == [access_token |-> NONE, token_expires_at |-> NoExpiry]

TokenOutcomes == {"token", "no_token", "status", "timeout", "exception"}

LookupOutcomes == {"data", "unauthorized", "status", "timeout", "exception"}

\* the AccessToken the server issues at current_time for an attempt
AccessToken(current_time, attempt) ==
  "token " \o IntToStr(current_time) \o "/" \o IntToStr(attempt)

TokenRequest == [to |-> "token", token |-> NONE]

\* TelkomselAPIClient._get_access_token: the client after the call, the
\* token returned, the requests sent and the exception raised
get_access_token(cl, current_time, attempt, outcome) ==
  IF /\ cl.access_token # NONE
     /\ cl.token_expires_at # NoExpiry
     /\ current_time < cl.token_expires_at - token_refresh_margin
  THEN [client |-> cl, token |-> cl.access_token, requests |-> <<>>, raised |-> NONE]
  ELSE IF outcome = "token"
  THEN [client |-> [access_token |-> AccessToken(current_time, attempt),
                    token_expires_at |-> current_time + token_lifetime],
        token |-> AccessToken(current_time, attempt),
        requests |-> <<TokenRequest>>, raised |-> NONE]
  ELSE IF outcome = "no_token"
  THEN [client |-> [access_token |-> NONE,
                    token_expires_at |-> current_time + token_lifetime],
        token |-> NONE, requests |-> <<TokenRequest>>, raised |-> NONE]
  ELSE [client |-> cl, token |-> NONE, requests |-> <<TokenRequest>>,
        raised |-> IF outcome = "timeout" THEN "Timeout" ELSE "Exception"]

\* the records query_user_history returns
LookupSuccess(data) ==
  [success |-> TRUE, data |-> data, error |-> NONE, status_code |-> NONE]

LookupFailure(error, status_code) ==
  [success |-> FALSE, data |-> NONE, error |-> error, status_code |-> status_code]

\* what an attempt of query_user_history ends in: a record to return, or
\* a retry after some seconds
Returns(result, cl, requests) ==
  [retry |-> FALSE, result |-> result, client |-> cl, requests |-> requests,
   elapsed |-> 0]

Retries(cl, requests, elapsed) ==
  [retry |-> TRUE, result |-> LookupFailure("Maximum retries exceeded", NONE),
   client |-> cl, requests |-> requests, elapsed |-> elapsed]

\* a slip that keeps the token after a 401
lookup_attempt_keeping_token(got, attempt, outcome) ==
  LET sent == Append(got.requests, [to |-> "lookup", token |-> got.token])
  IN  IF got.raised = "Timeout"
      THEN IF attempt < max_retries - 1
           THEN Retries(got.client, got.requests, token_timeout + retry_sleep)
           ELSE Returns(LookupFailure("API request timeout", NONE),
                        got.client, got.requests)
      ELSE IF got.raised = "Exception"
      THEN Returns(LookupFailure("Query user history failed: token", NONE),
                   got.client, got.requests)
      ELSE IF outcome \in {"data", "empty", "bad_data"}
      THEN Returns(LookupSuccess(outcome), got.client, sent)
      ELSE IF outcome = "unauthorized" /\ attempt < max_retries - 1
      THEN Retries(got.client, sent, 0)
      ELSE IF outcome \in {"unauthorized", "status"}
      THEN Returns(LookupFailure("API request failed: " \o outcome,
                                 IF outcome = "unauthorized" THEN "401" ELSE "500"),
                   got.client, sent)
      ELSE IF outcome = "timeout"
      THEN IF attempt < max_retries - 1
           THEN Retries(got.client, sent, lookup_timeout + retry_sleep)
           ELSE Returns(LookupFailure("API request timeout", NONE),
                        got.client, sent)
      ELSE Returns(LookupFailure("Query user history failed: connection", NONE),
                   got.client, sent)

\* query_user_history, one pass of its loop: got is what _get_access_token
\* gave, outcome the answer to the lookup request
lookup_attempt(got, attempt, outcome) ==
  LET sent == Append(got.requests, [to |-> "lookup", token |-> got.token])
  IN  IF got.raised = "Timeout"
      THEN IF attempt < max_retries - 1
           THEN Retries(got.client, got.requests, token_timeout + retry_sleep)
           ELSE Returns(LookupFailure("API request timeout", NONE),
                        got.client, got.requests)
      ELSE IF got.raised = "Exception"
      THEN Returns(LookupFailure("Query user history failed: token", NONE),
                   got.client, got.requests)
      ELSE IF outcome \in {"data", "empty", "bad_data"}
      THEN Returns(LookupSuccess(outcome), got.client, sent)
      ELSE IF outcome = "unauthorized" /\ attempt < max_retries - 1
      THEN Retries([got.client EXCEPT !.access_token = NONE], sent, 0)
      ELSE IF outcome \in {"unauthorized", "status"}
      THEN Returns(LookupFailure("API request failed: " \o outcome,
                                 IF outcome = "unauthorized" THEN "401" ELSE "500"),
                   got.client, sent)
      ELSE IF outcome = "timeout"
      THEN IF attempt < max_retries - 1
           THEN Retries(got.client, sent, lookup_timeout + retry_sleep)
           ELSE Returns(LookupFailure("API request timeout", NONE),
                        got.client, sent)
      ELSE Returns(LookupFailure("Query user history failed: connection", NONE),
                   got.client, sent)

\* the first pass of the loop of query_user_history
first_attempt(cl, current_time, script) ==
  lookup_attempt(get_access_token(cl, current_time, 0, script[1]), 0, script[2])

\* TelkomselAPIClient.query_user_history: script holds the answers to the
\* token and the lookup request of the first and of the second attempt
query_user_history(cl, current_time, script) ==
  LET first == first_attempt(cl, current_time, script)
      second == lookup_attempt(
                  get_access_token(first.client, current_time + first.elapsed,
                                   1, script[3]),
                  1, script[4])
  IN  IF ~first.retry
      THEN [result |-> first.result, client |-> first.client,
            requests |-> first.requests, attempts |-> 1]
      ELSE [result |-> second.result, client |-> second.client,
            requests |-> first.requests \o second.requests, attempts |-> 2]

\* the answers a token request can get, if the client sends one
TokenAnswers(cl, current_time) ==
  IF get_access_token(cl, current_time, 0, NONE).requests = <<>>
  THEN {NONE} ELSE TokenOutcomes

\* the answers a lookup request can get, if the attempt comes to send one
LookupAnswers(got) ==
  IF got.raised = NONE THEN LookupOutcomes ELSE {NONE}

\* the answers to the requests of a second attempt, if there is one
SecondAnswers(first, current_time) ==
  IF ~first.retry
  THEN {<<NONE, NONE>>}
  ELSE UNION { { <<t2, l2>> :
                   l2 \in LookupAnswers(get_access_token(first.client,
                             current_time + first.elapsed, 1, t2)) } :
               t2 \in TokenAnswers(first.client, current_time + first.elapsed) }

\* the scripts that answer exactly the requests a call sends
ApiScripts(cl, current_time) ==
  UNION { UNION { { <<t1, l1, second[1], second[2]>> :
                      second \in SecondAnswers(
                        lookup_attempt(get_access_token(cl, current_time, 0, t1), 0, l1),
                        current_time) } :
                  l1 \in LookupAnswers(get_access_token(cl, current_time, 0, t1)) } :
          t1 \in TokenAnswers(cl, current_time) }

\* the script of a call that sends no request
NoScript == <<NONE, NONE, NONE, NONE>>

(***************************************************************************)
(* The external calls of the pipeline.  Each is a requests.post; the       *)
(* timeout it passes is the time after which requests raises Timeout, and  *)
(* a post without one waits for the answer as long as it takes.            *)
(***************************************************************************)
\* a requests.post without timeout
NoTimeout == -1

ExternalCalls ==
  {"classification_reasoner", "followup_reasoner", "text_improvement",
   "date_extraction", "token_request", "live_lookup"}

\* the timeout argument of the requests.post of a call
timeout_of(call) ==
  CASE call = "classification_reasoner" -> NoTimeout
    [] call = "followup_reasoner" -> NoTimeout
    [] call = "text_improvement" -> NoTimeout
    [] call = "date_extraction" -> token_timeout
    [] call = "token_request" -> token_timeout
    [] call = "live_lookup" -> lookup_timeout

\* the queries that meet the external calls: a number to look up with a
\* time no pattern matches, a follow-up question in a session with
\* context, and a complaint question left to the reasoner whose answer is
\* a detail narrative
PipelineQueries == {"smartcare", "followup", "detail"}

\* no query in the pipeline
NoCall == [query |-> NONE, call |-> NONE, attempt |-> 0, ended |-> NONE]

Waiting(query, call, attempt) ==
  [query |-> query, call |-> call, attempt |-> attempt, ended |-> NONE]

\* the query got its response; ended tells how its last call ended
Completed(query, ended) ==
  [query |-> query, call |-> NONE, attempt |-> 0, ended |-> ended]

\* the first external call a query makes
first_call(query) ==
  IF query = "smartcare" THEN Waiting(query, "date_extraction", 0)
  ELSE IF query = "followup" THEN Waiting(query, "followup_reasoner", 0)
  ELSE Waiting(query, "classification_reasoner", 0)

\* where a query goes when the call it waits on is answered
after_answer(p) ==
  IF p.call = "date_extraction" THEN Waiting(p.query, "token_request", 0)
  ELSE IF p.call = "token_request" THEN Waiting(p.query, "live_lookup", p.attempt)
  ELSE IF p.call = "classification_reasoner" THEN Waiting(p.query, "text_improvement", 0)
  ELSE Completed(p.query, "answered")

\* where a query goes when requests raises Timeout in the call it waits
\* on: the fallback of the date extraction, the retry of the client, the
\* maintenance response
after_timeout(p) ==
  IF p.call = "date_extraction" THEN Waiting(p.query, "token_request", 0)
  ELSE IF p.call = "token_request" /\ p.attempt < max_retries - 1
  THEN Waiting(p.query, "token_request", p.attempt + 1)
  ELSE IF p.call = "live_lookup" /\ p.attempt < max_retries - 1
  THEN Waiting(p.query, "live_lookup", p.attempt + 1)
  ELSE Completed(p.query, "fallback")

\* no call of the client yet
NoClientCall ==
  [before |-> NoClient, at |-> 0, script |-> <<>>,
   result |-> LookupFailure(NONE, NONE), requests |-> <<>>, attempts |-> 0,
   calls |-> 0]

(***************************************************************************)
(* workflows/smartcare_workflow.py                                         *)
(***************************************************************************)
\* what the telecom API does with a lookup: an answer with history rows, an
\* answer without rows, an answer whose data cannot be processed, an
\* answer that reports failure, or an exception of the client
ApiOutcomes == {"data", "empty", "bad_data", "failure", "exception"}

\* SmartCareWorkflow._create_maintenance_response
create_maintenance_response(msisdn_info, error) ==
  [response |-> "Layanan SmartCare Sedang Maintenance. Nomor: "
                  \o msisdn_info.format
                  \o " (Telkomsel). Status: API server sedang dalam perbaikan. "
                  \o "Error: Connection timeout",
   status |-> "api_maintenance",
   metadata |-> [error_type |-> "api_unavailable", msisdn |-> msisdn_info,
                 error_details |-> error]]

\* the bodies of a 200 answer to the lookup
LookupBodies == {"data", "empty", "bad_data"}

\* str(api_error) of an exception that query_user_history lets through
ClientRaised == "client raised"

\* no lookup made
NoApiResult ==
  [api |-> NONE, error |-> NONE, client |-> NoClient, requests |-> <<>>]

\* a slip that takes any record the client returns for data
api_result_trusted(cl, current_time, script, body, fault) ==
  LET out == query_user_history(cl, current_time, script)
  IN  IF fault = "exception"
      THEN [api |-> "exception", error |-> ClientRaised, client |-> cl,
            requests |-> <<>>]
      ELSE [api |-> body, error |-> NONE, client |-> out.client,
            requests |-> out.requests]

\* SmartCareWorkflow.execute, step 3: the call of query_user_history and
\* what execute makes of it: the outcome it acts on, and the error it
\* hands to _create_maintenance_response
api_result(cl, current_time, script, body, fault) ==
  LET out == query_user_history(cl, current_time, script)
  IN  IF fault = "exception"
      THEN [api |-> "exception", error |-> ClientRaised, client |-> cl,
            requests |-> <<>>]
      ELSE IF ~out.result.success
      THEN [api |-> "failure", error |-> out.result.error,
            client |-> out.client, requests |-> out.requests]
      ELSE [api |-> body, error |-> NONE, client |-> out.client,
            requests |-> out.requests]

\* a SmartCare answer: text, status, error_type and the API lookups made
SmartCareResponse(response, status, error_type, api_calls) ==
  [response |-> response, status |-> status, error_type |-> error_type,
   entities |-> <<>>, db_executed |-> FALSE, api_calls |-> api_calls]

\* the variant of SmartCareWorkflow.execute without the operator check
smartcare_execute_any_operator(user_query, now, frac, llm, api) ==
  LET lookup(parsed_query) ==
        [msisdn |-> convert_to_api_format(parsed_query.msisdn.normalized),
         startTime |-> parsed_query.time_range.start_time,
         endTime |-> parsed_query.time_range.end_time]
      answer(parsed_query, msisdn_info, call) ==
        IF parsed_query.raises
        THEN SmartCareResponse("SmartCare workflow execution failed",
                               "error", "execution_error", <<>>)
        ELSE IF ~parsed_query.success
        THEN SmartCareResponse(
               "Query parsing failed: " \o Join("; ", parsed_query.errors),
               "error", "parsing_error", <<>>)
        ELSE IF api \in {"exception", "failure"}
        THEN SmartCareResponse(
               create_maintenance_response(msisdn_info, api).response,
               "api_maintenance", "api_unavailable", <<call>>)
        ELSE SmartCareResponse(parsed_query.intent, "success", NONE, <<call>>)
      executed(parsed_query) ==
        answer(parsed_query, parsed_query.msisdn, lookup(parsed_query))
  IN  executed(parse_query(user_query, now, frac, llm))

\* SmartCareWorkflow.execute
smartcare_execute(user_query, now, frac, llm, api) ==
  LET lookup(parsed_query) ==
        [msisdn |-> convert_to_api_format(parsed_query.msisdn.normalized),
         startTime |-> parsed_query.time_range.start_time,
         endTime |-> parsed_query.time_range.end_time]
      answer(parsed_query, msisdn_info, call) ==
        IF parsed_query.raises
        THEN SmartCareResponse("SmartCare workflow execution failed",
                               "error", "execution_error", <<>>)
        ELSE IF ~parsed_query.success
        THEN SmartCareResponse(
               "Query parsing failed: " \o Join("; ", parsed_query.errors),
               "error", "parsing_error", <<>>)
        ELSE IF ~is_telkomsel_number(msisdn_info.normalized)
        THEN SmartCareResponse(
               "Nomor " \o msisdn_info.format
                 \o " bukan nomor Telkomsel. Sistem hanya mendukung analisis nomor Telkomsel.",
               "error", "invalid_operator", <<>>)
        ELSE IF api \in {"exception", "failure"}
        THEN SmartCareResponse(
               create_maintenance_response(msisdn_info, api).response,
               "api_maintenance", "api_unavailable", <<call>>)
        ELSE IF api = "bad_data"
        THEN SmartCareResponse(
               IF parsed_query.intent = "chart" THEN "Chart generation failed"
               ELSE "Narrative generation failed",
               "error", "execution_error", <<call>>)
        ELSE SmartCareResponse(
               IF parsed_query.intent = "chart" THEN "chart"
               ELSE IF api = "empty" THEN "no_data"
               ELSE parsed_query.intent,
               "success", NONE, <<call>>)
      executed(parsed_query) ==
        answer(parsed_query, parsed_query.msisdn, lookup(parsed_query))
  IN  executed(parse_query(user_query, now, frac, llm))

(***************************************************************************)
(* tools/smart_query_builder.py                                            *)
(*                                                                         *)
(* A Python dict is a sequence of <<key, value>> pairs in insertion order  *)
(* (build_sql iterates over entities.items()).  An entity is a record;     *)
(* a key the dict does not hold is NONE.                                   *)
(***************************************************************************)
DictHas(d, key) == \E i \in 1..Len(d) : d[i][1] = key

DictGet(d, key, default) ==
  IF DictHas(d, key)
  THEN d[CHOOSE i \in 1..Len(d) : d[i][1] = key][2]
  ELSE default

\* d[key] = value
DictSet(d, key, value) ==
  IF DictHas(d, key)
  THEN [i \in 1..Len(d) |-> IF d[i][1] = key THEN <<key, value>> ELSE d[i]]
  ELSE Append(d, <<key, value>>)

Entity(field, value, search_type, entity_type, group_by) ==
  [field |-> field, value |-> value, search_type |-> search_type,
   entity_type |-> entity_type, group_by |-> group_by]

\* the semantic mapping the builder loads from config/semantic_mapping.yaml,
\* by the keys the builder reads: geographic_fields stands for
\* semantic_categories.geographic.fields, a pair of intent_patterns for
\* intent_patterns.<intent>.keywords, a pair of time_expressions for a phrase
\* and its condition and group_by, a pair of field_mappings for a field and
\* its category, nlq_synonyms, search_type and values.
\* EmptyMapping is what load_semantic_mapping returns when the file cannot
\* be read; SampleMapping is a file with one entry of each kind.
EmptyMapping ==
  [table_name |-> "inap_ticketing_customer_complain",
   intent_patterns |-> <<>>,
   geographic_fields |-> <<>>,
   time_expressions |-> <<>>,
   field_mappings |-> <<>>]

SampleMapping ==
  [table_name |-> "inap_ticketing_customer_complain",
   intent_patterns |->
     << <<"trend", {"tren"}>> >>,
   geographic_fields |->
     <<"provinsi_create_ticket", "kabupaten_kota_create_ticket",
       "kecamatan_create_ticket", "desa_kelurahan_create_ticket",
       "customer_region_create_ticket">>,
   time_expressions |->
     << <<"minggu ini",
          [condition |-> "create_time >= dateTrunc('week', CURRENT_DATE)",
           group_by |-> "week"]>>,
        <<"bulan ini",
          [condition |-> "create_time >= dateTrunc('month', CURRENT_DATE)",
           group_by |-> "month"]>>,
        <<"kemarin",
          [condition |-> "toDate(create_time) = CURRENT_DATE - toIntervalDay(1)",
           group_by |-> NONE]>> >>,
   field_mappings |->
     << <<"customer_type_create_ticket",
          [category |-> "customer", nlq_synonyms |-> <<"pelanggan", "customer">>,
           search_type |-> "categorical", values |-> <<"Consumer", "Corporate">>]>> >>]

Mappings == {EmptyMapping, SampleMapping}

\* the least of a set of positions, 0 for the empty set
FirstOf(hits) == IF hits = {} THEN 0 ELSE CHOOSE k \in hits : \A m \in hits : k <= m

\* does cc-\d{8}-\d{8} match at position i
ticket_id_at(query_lower, i) ==
  /\ Len(query_lower) >= i + 19
  /\ Sub(query_lower, i, i + 2) = "cc-"
  /\ AllDigits(Sub(query_lower, i + 3, i + 10))
  /\ Ch(query_lower, i + 11) = "-"
  /\ AllDigits(Sub(query_lower, i + 12, i + 19))

\* SmartQueryBuilder.detect_intent: ticket_patterns, cc-\d{8}-\d{8}
\* (the position of the first match, 0 when there is none)
ticket_id_search(query_lower) ==
  FirstOf({ i \in 1..Len(query_lower) : ticket_id_at(query_lower, i) })

\* SmartQueryBuilder.detect_intent: ticket_patterns, inc\d+
inc_id_search(query_lower) ==
  \E i \in 1..(Len(query_lower) - 3) :
    Sub(query_lower, i, i + 2) = "inc" /\ IsDigit(Ch(query_lower, i + 3))

\* detect_intent: the first intent of the mapping one of whose keywords the
\* query holds, NONE when there is none
mapped_intent(ip, ipHits) == IF ipHits = {} THEN NONE ELSE ip[FirstOf(ipHits)][1]

\* detect_intent on the lowered query and the runs of digits of the query
detect_intent_rules(mapping, query_lower, runs) ==
  IF ticket_id_search(query_lower) # 0 \/ inc_id_search(query_lower)
  THEN "detail"
  ELSE IF \E k \in 1..Len(runs) :
            \/ RunMatches(runs[k].text, "628", 8, 12)
            \/ RunMatches(runs[k].text, "08", 8, 12)
            \/ RunMatches(runs[k].text, "", 10, 15)
  THEN "detail"
  ELSE IF \E k \in 1..Len(mapping.intent_patterns) :
            ContainsAny(query_lower, mapping.intent_patterns[k][2])
  THEN mapped_intent(mapping.intent_patterns,
                     { k \in 1..Len(mapping.intent_patterns) :
                         ContainsAny(query_lower, mapping.intent_patterns[k][2]) })
  ELSE IF ContainsAny(query_lower, {"detail", "info", "informasi", "rinci"})
  THEN "detail"
  ELSE IF ContainsAny(query_lower, {"berapa", "jumlah", "count", "total"})
  THEN "count"
  ELSE IF ContainsAny(query_lower, {"tampilkan", "lihat", "show", "contoh"})
  THEN "list"
  ELSE IF ContainsAny(query_lower, {"summary", "ringkasan", "laporan"})
  THEN "summary"
  ELSE "list"

\* SmartQueryBuilder.detect_intent
detect_intent(mapping, query) ==
  detect_intent_rules(mapping, Lower(query), DigitRuns(query))

\* the text of the first run that \b<prefix>\d{lo,hi}\b matches, NONE when
\* there is none
FirstRun(runs, prefix, lo, hi) ==
  IF \A k \in 1..Len(runs) : ~RunMatches(runs[k].text, prefix, lo, hi) THEN NONE
  ELSE runs[FirstOf({ k \in 1..Len(runs) :
                        RunMatches(runs[k].text, prefix, lo, hi) })].text

\* extract_detail_entities: the entities for the position t of the ticket
\* id and the matches of the three number patterns
detail_entities_for(query, t, msisdn_match, local_msisdn_match, other_number_match) ==
  LET e1 == IF t # 0
            THEN << Entity("order_id", Upper(Sub(query, t, t + 19)),
                           "exact_match", "ticket_id", NONE) >>
            ELSE <<>>
      e2 == IF msisdn_match # NONE
            THEN << Entity("customer_msisdn_create_ticket", msisdn_match,
                           "exact_match", "msisdn", NONE) >>
            ELSE <<>>
      e3 == IF local_msisdn_match # NONE /\ msisdn_match = NONE
            THEN << Entity("customer_msisdn_create_ticket",
                           "628" \o DropFirst(local_msisdn_match, 2),
                           "exact_match", "msisdn", NONE) >>
            ELSE <<>>
      strict == e1 \o e2 \o e3
  IN  IF strict = <<>> /\ other_number_match # NONE
      THEN << Entity("customer_msisdn_create_ticket", other_number_match,
                     "contains", "msisdn_fuzzy", NONE) >>
      ELSE strict

\* extract_detail_entities on the runs of digits of the query
detail_entities_in(query, t, runs) ==
  detail_entities_for(query, t, FirstRun(runs, "628", 8, 12),
                      FirstRun(runs, "08", 8, 12), FirstRun(runs, "", 10, 15))

\* SmartQueryBuilder.extract_detail_entities
extract_detail_entities(query) ==
  detail_entities_in(query, ticket_id_search(Lower(query)), DigitRuns(query))

\* SmartQueryBuilder.extract_geographic_entities: location_mappings, in
\* dictionary order
location_mappings ==
  << <<"jakbar", "Jakarta Barat">>, <<"jakarta barat", "Jakarta Barat">>,
     <<"jaksel", "Jakarta Selatan">>, <<"jakarta selatan", "Jakarta Selatan">>,
     <<"jaktim", "Jakarta Timur">>, <<"jakarta timur", "Jakarta Timur">>,
     <<"jakut", "Jakarta Utara">>, <<"jakarta utara", "Jakarta Utara">>,
     <<"jakpus", "Jakarta Pusat">>, <<"jakarta pusat", "Jakarta Pusat">>,
     <<"jakarta", "Jakarta">>, <<"bandung", "Bandung">>,
     <<"surabaya", "Surabaya">> >>

\* extract_geographic_entities: one entity per geographic field for the
\* k-th location, none for k = 0
location_entities(fields, k) ==
  IF k = 0 THEN <<>>
  ELSE [i \in 1..Len(fields) |->
          Entity(fields[i], location_mappings[k][2], "contains", NONE, NONE)]

\* SmartQueryBuilder.extract_geographic_entities
extract_geographic_entities(mapping, query_lower) ==
  location_entities(mapping.geographic_fields,
                    FirstOf({ k \in 1..Len(location_mappings) :
                                Contains(query_lower, location_mappings[k][1]) }))

\* extract_time_entities: the entity of the k-th time expression, none for
\* k = 0
time_expression_entities(te, k) ==
  IF k = 0 THEN <<>>
  ELSE << Entity("create_time", te[k][2].condition, "raw_sql", NONE,
                 te[k][2].group_by) >>

\* SmartQueryBuilder.extract_time_entities
extract_time_entities(mapping, query_lower) ==
  time_expression_entities(mapping.time_expressions,
                           FirstOf({ k \in 1..Len(mapping.time_expressions) :
                                       Contains(query_lower,
                                                mapping.time_expressions[k][1]) }))

\* extract_value_for_field: device_patterns, in dictionary order
device_patterns == <<"iphone", "samsung", "oppo", "xiaomi", "android">>

\* extract_value_for_field on the lowered query: catHit is the first of the
\* field's values the query holds, devHit the first device (0 for none)
value_for_field(query_lower, field_name, field_info, catHit, devHit) ==
  IF catHit # 0 THEN field_info.values[catHit]
  ELSE IF devHit # 0 THEN Upper(device_patterns[devHit])
  ELSE IF Contains(field_name, "status") /\ Contains(query_lower, "open")
  THEN "Open"
  ELSE IF Contains(field_name, "status") /\ Contains(query_lower, "closed")
  THEN "Closed"
  ELSE IF Contains(field_name, "status") /\ Contains(query_lower, "progress")
  THEN "BusinessStatusInProgress"
  ELSE IF Contains(field_name, "status") /\ Contains(query_lower, "resolved")
  THEN "BusinessStatusResovled"
  ELSE IF Contains(field_name, "priority") /\ Contains(query_lower, "high")
  THEN "High"
  ELSE IF Contains(field_name, "priority") /\ Contains(query_lower, "medium")
  THEN "Medium"
  ELSE IF Contains(field_name, "priority") /\ Contains(query_lower, "low")
  THEN "Low"
  ELSE NONE

\* extract_value_for_field on the lowered query
lowered_value_for_field(query_lower, field_name, field_info) ==
  value_for_field(
    query_lower, field_name, field_info,
    IF field_info.search_type = "categorical"
    THEN FirstOf({ k \in 1..Len(field_info.values) :
                     Contains(query_lower, Lower(field_info.values[k])) })
    ELSE 0,
    IF Contains(field_name, "handset") \/ Contains(field_name, "device")
    THEN FirstOf({ k \in 1..Len(device_patterns) :
                     Contains(query_lower, device_patterns[k]) })
    ELSE 0)

\* SmartQueryBuilder.extract_value_for_field
extract_value_for_field(query, field_name, field_info) ==
  lowered_value_for_field(Lower(query), field_name, field_info)

\* extract_all_entities, one field of field_mappings: value is what
\* extract_value_for_field gave, found the synonyms the query holds
field_entities(entities, field_name, field_info, value, found) ==
  IF DictHas(entities, field_info.category) \/ value = NONE \/ found = <<>>
  THEN entities
  ELSE DictSet(entities, field_info.category,
               [i \in 1..Len(found) |->
                  Entity(field_name, value, field_info.search_type, NONE, NONE)])

\* the synonyms the lowered query holds
found_synonyms(query_lower, nlq_synonyms) ==
  SelectSeq(nlq_synonyms, LAMBDA syn : Contains(query_lower, Lower(syn)))

\* SmartQueryBuilder.extract_all_entities: the loop over field_mappings,
\* one entity per synonym found in the query
RECURSIVE field_mapping_entities(_, _, _, _)
field_mapping_entities(mapping, query, entities, k) ==
  IF k > Len(mapping.field_mappings) THEN entities
  ELSE field_mapping_entities(
         mapping, query,
         field_entities(entities, mapping.field_mappings[k][1],
                        mapping.field_mappings[k][2],
                        extract_value_for_field(query, mapping.field_mappings[k][1],
                                                mapping.field_mappings[k][2]),
                        found_synonyms(Lower(query),
                                       mapping.field_mappings[k][2].nlq_synonyms)),
         k + 1)

\* the entities with an "inherited" search type for the kept pairs of the
\* context
inherited_entities(kept) ==
  [i \in 1..Len(kept) |-> Entity(kept[i][1], kept[i][2], "inherited", NONE, NONE)]

\* SmartQueryBuilder.extract_all_entities: the entities taken from `context`
context_entities(context) ==
  inherited_entities(SelectSeq(context,
                               LAMBDA kv : StartsWith(kv[1], "last_") /\ kv[2] # ""))

\* the location fields without the region
inherited_location_fields_without_region ==
  <<"provinsi_create_ticket", "kabupaten_kota_create_ticket",
    "kecamatan_create_ticket", "desa_kelurahan_create_ticket">>

\* the five fields extract_all_entities fills from an inherited location
inherited_location_fields ==
  <<"provinsi_create_ticket", "kabupaten_kota_create_ticket",
    "kecamatan_create_ticket", "desa_kelurahan_create_ticket",
    "customer_region_create_ticket">>

\* extract_all_entities: the geographic entities of enhanced_context
enhanced_geographic(entities, ec) ==
  IF ec = NoContext THEN entities
  ELSE IF ec.complete_geo_entities # <<>>
  THEN DictSet(entities, "geographic", ec.complete_geo_entities)
  ELSE IF ec.inherit_location /\ ec.location # ""
  THEN DictSet(entities, "geographic",
               [i \in 1..Len(inherited_location_fields) |->
                  Entity(inherited_location_fields[i], ec.location,
                         "contains", NONE, NONE)])
  ELSE entities

\* extract_all_entities: the time frame of enhanced_context
enhanced_temporal(entities, ec) ==
  IF ec # NoContext /\ ec.inherit_time /\ ec.timeframe # ""
  THEN DictSet(entities, "temporal",
               << Entity("create_time", ec.timeframe, "raw_sql", NONE, NONE) >>)
  ELSE entities

\* extract_all_entities: the status filter of enhanced_context
enhanced_status(entities, ec) ==
  IF /\ ec # NoContext
     /\ ec.filters # ""
     /\ (Contains(ec.filters, "status_pending") \/ Contains(ec.filters, "belum solve"))
  THEN DictSet(entities, "status",
               << Entity("business_status", "BusinessStatusInProgress",
                         "exact_match", NONE, NONE) >>)
  ELSE entities

\* extract_all_entities: entities['detail'] = detail_entities
with_detail(entities, detail_entities) ==
  IF detail_entities # <<>> THEN DictSet(entities, "detail", detail_entities)
  ELSE entities

\* extract_all_entities: the first value of a category is kept
with_missing(entities, category, found) ==
  IF ~DictHas(entities, category) /\ found # <<>>
  THEN DictSet(entities, category, found)
  ELSE entities

\* extract_all_entities: entities['context'] = the inherited entities
with_context(entities, ctx) ==
  IF ctx # <<>> THEN DictSet(entities, "context", ctx) ELSE entities

\* SmartQueryBuilder.extract_all_entities: the entities of enhanced_context,
\* the detail entities, the field mappings, the locations and the time
\* expressions of the query, and the entities of the context, in this order
extract_all_entities(mapping, query, context, enhanced_context) ==
  with_context(
    with_missing(
      with_missing(
        field_mapping_entities(
          mapping, query,
          with_detail(
            enhanced_status(
              enhanced_temporal(enhanced_geographic(<<>>, enhanced_context),
                                enhanced_context),
              enhanced_context),
            extract_detail_entities(query)),
          1),
        "geographic", extract_geographic_entities(mapping, Lower(query))),
      "temporal", extract_time_entities(mapping, Lower(query))),
    context_entities(context))

\* SmartQueryBuilder._convert_to_clickhouse_sql: replacements, in
\* dictionary order
replacements ==
  << <<"CURRENT_DATE", "today()">>,
     <<"NOW()", "now()">>,
     <<"(dateTrunc('month', CURRENT_DATE) - toIntervalMonth(1))",
       "(toStartOfMonth(today()) - INTERVAL 1 MONTH)">>,
     <<"dateTrunc('month', CURRENT_DATE)", "toStartOfMonth(today())">>,
     <<"(dateTrunc('week', CURRENT_DATE) - toIntervalWeek(1))",
       "(toMonday(today()) - INTERVAL 1 WEEK)">>,
     <<"dateTrunc('week', CURRENT_DATE)", "toMonday(today())">>,
     <<"toIntervalMonth(1)", "INTERVAL 1 MONTH">>,
     <<"toIntervalWeek(1)", "INTERVAL 1 WEEK">>,
     <<"toIntervalDay(1)", "INTERVAL 1 DAY">> >>

\* SmartQueryBuilder._convert_to_clickhouse_sql
RECURSIVE convert_from(_, _)
convert_from(value, k) ==
  IF k > Len(replacements) THEN value
  ELSE convert_from(Replace(value, replacements[k][1], replacements[k][2]), k + 1)

convert_to_clickhouse_sql(value) == convert_from(value, 1)

\* SmartQueryBuilder.build_sql: the condition one entity contributes
\* (<<>> when it is skipped); an entity without search_type is 'contains'
entity_condition(entity) ==
  IF entity.field \in {NONE, ""} \/ entity.value \in {NONE, ""} THEN <<>>
  ELSE IF entity.search_type \in {"contains", NONE}
  THEN << entity.field \o " ILIKE '%" \o entity.value \o "%'" >>
  ELSE IF entity.search_type \in {"exact_match", "categorical"}
  THEN << entity.field \o " = '" \o entity.value \o "'" >>
  ELSE IF entity.search_type = "raw_sql"
  THEN << convert_to_clickhouse_sql(entity.value) >>
  ELSE <<>>

RECURSIVE category_conditions(_)
category_conditions(entity_list) ==
  IF entity_list = <<>> THEN <<>>
  ELSE entity_condition(Head(entity_list)) \o category_conditions(Tail(entity_list))

\* the variant of where_conditions that lets the context category through
RECURSIVE where_conditions_with_context(_)
where_conditions_with_context(entities) ==
  IF entities = <<>> THEN <<>>
  ELSE
    LET category == Head(entities)[1]
        conds == category_conditions(Head(entities)[2])
        inherited == [i \in 1..Len(Head(entities)[2]) |->
                        Head(entities)[2][i].field \o " = '"
                          \o Head(entities)[2][i].value \o "'"]
        here == IF category = "context" THEN inherited
                ELSE IF conds = <<>> THEN <<>>
                ELSE IF category \in {"geographic", "detail"}
                THEN << "(" \o Join(" OR ", conds) \o ")" >>
                ELSE conds
    IN  here \o where_conditions_with_context(Tail(entities))

\* SmartQueryBuilder.build_sql: the loop over entities.items()
RECURSIVE where_conditions(_)
where_conditions(entities) ==
  IF entities = <<>> THEN <<>>
  ELSE
    LET category == Head(entities)[1]
        conds == category_conditions(Head(entities)[2])
        here == IF category = "context" \/ conds = <<>> THEN <<>>
                ELSE IF category \in {"geographic", "detail"}
                THEN << "(" \o Join(" OR ", conds) \o ")" >>
                ELSE conds
    IN  here \o where_conditions(Tail(entities))

\* build_sql: group_by_time, the group_by of the k-th temporal entity in
\* capitals, "DAY" for k = 0
group_by_time_of(temporal, k) ==
  IF k = 0 THEN "DAY" ELSE Upper(temporal[k].group_by)

\* build_sql: the date function of group_by_time
date_trunc_of(group_by_time) ==
  IF group_by_time = "WEEK" THEN "toMonday(create_time)"
  ELSE IF group_by_time = "MONTH" THEN "toStartOfMonth(create_time)"
  ELSE IF group_by_time = "YEAR" THEN "toStartOfYear(create_time)"
  ELSE "toDate(create_time)"

\* build_sql: the date function for the temporal entities
temporal_date_trunc(temporal) ==
  date_trunc_of(
    group_by_time_of(temporal,
                     FirstOf({ k \in 1..Len(temporal) :
                                 temporal[k].group_by \notin {NONE, ""} })))

\* SmartQueryBuilder.build_sql: the date function of a summary
date_trunc_func(entities) == temporal_date_trunc(DictGet(entities, "temporal", <<>>))

\* the indentation of the SQL templates in build_sql
Indent == "            "

\* build_sql: the statement of an intent for the table and the WHERE clause
\* (NONE is Python's None)
sql_statement(intent, entities, table_name, where_clause) ==
  IF intent = "count"
  THEN "SELECT count() AS total_count FROM " \o table_name
         \o " WHERE " \o where_clause
  ELSE IF intent = "list"
  THEN "SELECT order_id, create_time, description,\n"
         \o Indent \o "    kabupaten_kota_create_ticket, customer_type_create_ticket,\n"
         \o Indent \o "    business_status, priority_l2_assign\n"
         \o Indent \o "FROM " \o table_name \o "\n"
         \o Indent \o "WHERE " \o where_clause \o "\n"
         \o Indent \o "ORDER BY create_time DESC\n"
         \o Indent \o "LIMIT 10"
  ELSE IF intent = "detail"
  THEN "SELECT * FROM " \o table_name \o "\n"
         \o Indent \o "WHERE " \o where_clause \o "\n"
         \o Indent \o "ORDER BY create_time DESC\n"
         \o Indent \o "LIMIT 1"
  ELSE IF intent = "summary"
  THEN "SELECT \n"
         \o Indent \o "    provinsi_create_ticket,\n"
         \o Indent \o "    count() AS total_keluhan,\n"
         \o Indent \o "    business_status,\n"
         \o Indent \o "    customer_type_create_ticket,\n"
         \o Indent \o "    " \o date_trunc_func(entities) \o " AS waktu\n"
         \o Indent \o "FROM " \o table_name \o "\n"
         \o Indent \o "WHERE " \o where_clause \o "\n"
         \o Indent \o "GROUP BY provinsi_create_ticket, business_status, customer_type_create_ticket, waktu\n"
         \o Indent \o "ORDER BY waktu DESC"
  ELSE NONE

\* build_sql: where_clause
where_clause_of(wc) == IF wc # <<>> THEN Join(" AND ", wc) ELSE "1=1"

\* SmartQueryBuilder.build_sql
build_sql(mapping, intent, entities) ==
  sql_statement(intent, entities, mapping.table_name,
                where_clause_of(where_conditions(entities)))

\* build_context: last_location, the value of the k-th geographic entity,
\* nothing for k = 0
last_location_context(geo, k) ==
  IF k = 0 THEN <<>> ELSE << <<"last_location", geo[k].value>> >>

\* build_context: the first geographic entity in Jakarta
jakarta_location(geo) ==
  last_location_context(geo, FirstOf({ k \in 1..Len(geo) : Contains(geo[k].value, "Jakarta") }))

\* SmartQueryBuilder.build_context
build_context(mapping, user_query, entities) ==
  jakarta_location(DictGet(entities, "geographic", <<>>))
    \o << <<"last_query_type", detect_intent(mapping, user_query)>>,
          <<"last_query", user_query>> >>

\* analyze_and_build_query: the result for the detected intent and the
\* extracted entities
query_analysis(mapping, user_query, intent, entities) ==
  [intent |-> intent, entities |-> entities,
   sql |-> build_sql(mapping, intent, entities),
   context_for_next |-> build_context(mapping, user_query, entities)]

\* SmartQueryBuilder.analyze_and_build_query
analyze_and_build_query(mapping, user_query, context) ==
  query_analysis(mapping, user_query, detect_intent(mapping, user_query),
                 extract_all_entities(mapping, user_query, context, NoContext))

\* what the database does with a query: rows of a plain result, rows of an
\* aggregate whose total_keluhan columns are all 0, an empty result, a
\* reported failure, or an exception raised by the driver
DbOutcomes == {"rows", "zero_total_rows", "no_rows", "failure", "exception"}

\* SmartQueryBuilder.execute_query with the direct database tool
execute_query(db) ==
  IF db \in {"rows", "zero_total_rows", "no_rows"}
  THEN [success |-> TRUE, data |-> db, error |-> NONE]
  ELSE [success |-> FALSE, data |-> "no_rows", error |-> db]

NoExecutionResult == [success |-> FALSE, data |-> "no_rows", error |-> NONE]

\* the variant of execute_built_sql that runs the query whatever build_sql
\* returned
execute_built_sql_unguarded(intent, entities, sql_query, db) ==
  [success |-> TRUE, error |-> NONE,
   intent |-> intent, entities |-> entities, sql_query |-> sql_query,
   has_execution_result |-> TRUE,
   execution_result |-> execute_query(db),
   db_executed |-> TRUE, narrative |-> NONE]

\* SmartQueryBuilder.build_and_execute from the result of build_sql on;
\* has_execution_result tells whether the result carries the key,
\* db_executed whether the database was queried
execute_built_sql(intent, entities, sql_query, db) ==
  IF sql_query \in {NONE, ""}
  THEN [success |-> FALSE, error |-> "Failed to generate SQL query",
        intent |-> intent, entities |-> entities, sql_query |-> NONE,
        has_execution_result |-> FALSE,
        execution_result |-> NoExecutionResult,
        db_executed |-> FALSE, narrative |-> NONE]
  ELSE [success |-> TRUE, error |-> NONE,
        intent |-> intent, entities |-> entities, sql_query |-> sql_query,
        has_execution_result |-> TRUE,
        execution_result |-> execute_query(db),
        db_executed |-> TRUE, narrative |-> NONE]

\* build_and_execute from its third step on
build_and_execute_sql(mapping, intent, entities, db) ==
  execute_built_sql(intent, entities, build_sql(mapping, intent, entities), db)

\* SmartQueryBuilder.build_and_execute
build_and_execute(mapping, user_query, enhanced_context, db) ==
  build_and_execute_sql(
    mapping, detect_intent(mapping, user_query),
    extract_all_entities(mapping, user_query, <<>>, enhanced_context), db)

\* the narrative build_and_execute_with_narrative attaches, by its kind;
\* "<raise>" when StoryAgentSummary.generate_summary_narrative divides by a
\* zero total
narrative_kind(intent, data) ==
  IF intent = "summary"
  THEN IF data = "zero_total_rows" THEN "<raise>"
       ELSE IF data = "no_rows" THEN "summary_no_data" ELSE "summary"
  ELSE IF intent = "detail"
  THEN IF data = "no_rows" THEN "detail_not_found" ELSE "detail"
  ELSE IF intent = "count" THEN "count"
  ELSE IF intent = "list"
  THEN IF data = "no_rows" THEN "list_no_data" ELSE "list"
  ELSE "records"

\* build_and_execute_with_narrative: the narrative of a result whose query
\* succeeded
with_narrative(result) ==
  IF result.has_execution_result /\ result.execution_result.success
  THEN [result EXCEPT !.narrative =
          narrative_kind(result.intent, result.execution_result.data)]
  ELSE result

\* SmartQueryBuilder.build_and_execute_with_narrative
build_and_execute_with_narrative(mapping, user_query, enhanced_context, db) ==
  with_narrative(build_and_execute(mapping, user_query, enhanced_context, db))

(***************************************************************************)
(* workflows/: a workflow's answer is its response text (the kind of       *)
(* narrative on success, the message on error), its status and error_type, *)
(* and whether the database was queried on the way.  An error message is   *)
(* kept without the mark _create_error_response puts in front of it.       *)
(***************************************************************************)
\* BaseWorkflow._create_success_response; entities is metadata.entities
create_success_response(narrative, entities, db_executed) ==
  [response |-> narrative, status |-> "success", error_type |-> NONE,
   entities |-> entities, db_executed |-> db_executed, api_calls |-> <<>>]

\* BaseWorkflow._create_error_response
create_error_response(error_message, error_type, db_executed) ==
  [response |-> error_message, status |-> "error", error_type |-> error_type,
   entities |-> <<>>, db_executed |-> db_executed, api_calls |-> <<>>]

\* BaseWorkflow._validate_query_result
validate_query_result(result) == result.has_execution_result

\* SummaryWorkflow.execute on the result of build_and_execute;
\* generate_summary_narrative divides by the sum of the rows' total_keluhan,
\* which is 0 when the rows are all-zero aggregates or come from a query
\* that is not the summary query
summary_response(result) ==
  IF ~validate_query_result(result)
  THEN create_error_response("Invalid query result format",
                             "execution_error", result.db_executed)
  ELSE IF result.execution_result.success
  THEN IF \/ result.execution_result.data = "zero_total_rows"
          \/ (result.execution_result.data = "rows" /\ result.intent # "summary")
       THEN create_error_response("Summary workflow execution failed",
                                  "execution_error", TRUE)
       ELSE IF result.execution_result.data = "no_rows"
       THEN create_success_response("summary_no_data", result.entities, TRUE)
       ELSE create_success_response("summary", result.entities, TRUE)
  ELSE create_error_response("Database query failed",
                             "execution_error", TRUE)

\* SummaryWorkflow.execute
summary_workflow_execute(mapping, user_query, enhanced_context, db) ==
  summary_response(build_and_execute(mapping, user_query, enhanced_context, db))

\* DetailWorkflow.execute on the result of build_and_execute
detail_response(result) ==
  IF ~validate_query_result(result)
  THEN create_error_response("Invalid query result format",
                             "execution_error", result.db_executed)
  ELSE IF result.execution_result.success
  THEN IF result.execution_result.data = "no_rows"
       THEN create_success_response("detail_not_found", result.entities, TRUE)
       ELSE create_success_response("detail", result.entities, TRUE)
  ELSE create_error_response("Database query failed",
                             "execution_error", TRUE)

\* DetailWorkflow.execute
detail_workflow_execute(mapping, user_query, enhanced_context, db) ==
  detail_response(build_and_execute(mapping, user_query, enhanced_context, db))

\* _execute_list_workflow on the result of build_and_execute_with_narrative,
\* whose narrative is "<raise>" when the call raised
list_response(result) ==
  LET execution_result ==
        IF result.has_execution_result THEN result.execution_result
        ELSE [success |-> FALSE, data |-> "no_rows",
              error |-> "Missing execution_result"]
  IN  IF result.narrative = "<raise>"
      THEN create_error_response("List workflow execution failed",
                                 "execution_error", TRUE)
      ELSE IF execution_result.success
      THEN create_success_response(result.narrative, result.entities, TRUE)
      ELSE create_error_response("List query failed",
                                 "execution_error", result.db_executed)

\* FollowupWorkflow._execute_list_workflow
execute_list_workflow(mapping, user_query, enhanced_context, db) ==
  list_response(
    build_and_execute_with_narrative(mapping, user_query, enhanced_context, db))

\* FollowupWorkflow.execute
followup_workflow_execute(mapping, user_query, enhanced_context, db) ==
  IF enhanced_context = NoContext
  THEN create_error_response("Enhanced context is required for follow-up workflow",
                             "execution_error", FALSE)
  ELSE IF enhanced_context.intent = "detail"
  THEN detail_workflow_execute(mapping, user_query, enhanced_context, db)
  ELSE IF enhanced_context.intent = "summary"
  THEN summary_workflow_execute(mapping, user_query, enhanced_context, db)
  ELSE execute_list_workflow(mapping, user_query, enhanced_context, db)

\* what the knowledge base does with a question: an answer, no relevant
\* document, no retrieval tool, or an exception of the retrieval
KnowledgeOutcomes == {"answer", "no_documents", "unavailable", "exception"}

\* KnowledgeWorkflow.execute
knowledge_workflow_execute(user_query, kb) ==
  IF kb = "unavailable"
  THEN create_error_response("RAG tool not available", "execution_error", FALSE)
  ELSE IF kb = "exception"
  THEN create_error_response("Knowledge workflow execution failed",
                             "execution_error", FALSE)
  ELSE create_success_response(kb, <<>>, FALSE)

(***************************************************************************)
(* memory/session_manager.py                                               *)
(*                                                                         *)
(* The store maps a session id to its session, NoSession for an id the     *)
(* store does not hold.  Time is time.time() in seconds.                   *)
(***************************************************************************)
max_session_age == 3600

NoSession == [last_activity |-> -1, conversation_history |-> <<>>,
              last_query_type |-> "<absent>"]

\* SessionManager._create_new_session
create_new_session(current_time) ==
  [last_activity |-> current_time, conversation_history |-> <<>>,
   last_query_type |-> NONE]

\* a slip that removes a session at the maximal age already
cleanup_expired_sessions_at_max_age(store, current_time) ==
  [sid \in DOMAIN store |->
     IF store[sid] # NoSession /\ current_time - store[sid].last_activity >= max_session_age
     THEN NoSession ELSE store[sid]]

\* SessionManager._cleanup_expired_sessions
cleanup_expired_sessions(store, current_time) ==
  [sid \in DOMAIN store |->
     IF store[sid] # NoSession /\ current_time - store[sid].last_activity > max_session_age
     THEN NoSession ELSE store[sid]]

\* SessionManager.get_session: the store after the call
get_session(store, session_id, current_time) ==
  LET cleaned == cleanup_expired_sessions(store, current_time)
  IN  IF cleaned[session_id] = NoSession
      THEN [cleaned EXCEPT ![session_id] = create_new_session(current_time)]
      ELSE cleaned

\* the interactions a history keeps
history_limit == 10

\* a slip that keeps the first interactions of a full history
save_interaction_evicting_newest(store, session_id, current_time, query, response, query_type, entities) ==
  LET got == get_session(store, session_id, current_time)
      interaction == [timestamp |-> current_time, query |-> query, response |-> response,
                      query_type |-> query_type, entities |-> entities]
      appended == Append(got[session_id].conversation_history, interaction)
      kept == IF Len(appended) > history_limit
              THEN SubSeq(appended, 1, history_limit)
              ELSE appended
  IN  [got EXCEPT ![session_id] =
         [last_activity |-> current_time, conversation_history |-> kept,
          last_query_type |-> query_type]]

\* SessionManager.save_interaction: the store after the call
save_interaction(store, session_id, current_time, query, response, query_type, entities) ==
  LET got == get_session(store, session_id, current_time)
      interaction == [timestamp |-> current_time, query |-> query, response |-> response,
                      query_type |-> query_type, entities |-> entities]
      appended == Append(got[session_id].conversation_history, interaction)
      kept == IF Len(appended) > history_limit
              THEN SubSeq(appended, Len(appended) - history_limit + 1, Len(appended))
              ELSE appended
  IN  [got EXCEPT ![session_id] =
         [last_activity |-> current_time, conversation_history |-> kept,
          last_query_type |-> query_type]]

NoFollowup ==
  [is_followup |-> FALSE, previous_query |-> NONE, previous_response |-> NONE,
   previous_query_type |-> NONE, previous_entities |-> <<>>]

\* a slip that answers with the oldest interaction of the history
get_context_for_followup_oldest(store, session_id, current_time, current_query) ==
  LET session == get_session(store, session_id, current_time)[session_id]
      is_followup == ContainsAny(Lower(current_query), followup_patterns)
      history == session.conversation_history
  IN  IF is_followup /\ history # <<>>
      THEN LET last_interaction == history[1]
           IN  [is_followup |-> TRUE,
                previous_query |-> last_interaction.query,
                previous_response |-> last_interaction.response,
                previous_query_type |-> last_interaction.query_type,
                previous_entities |-> last_interaction.entities]
      ELSE NoFollowup

\* SessionManager.get_context_for_followup, on the store get_session left
get_context_for_followup(store, session_id, current_time, current_query) ==
  LET session == get_session(store, session_id, current_time)[session_id]
      is_followup == ContainsAny(Lower(current_query), followup_patterns)
      history == session.conversation_history
  IN  IF is_followup /\ history # <<>>
      THEN LET last_interaction == history[Len(history)]
           IN  [is_followup |-> TRUE,
                previous_query |-> last_interaction.query,
                previous_response |-> last_interaction.response,
                previous_query_type |-> last_interaction.query_type,
                previous_entities |-> last_interaction.entities]
      ELSE NoFollowup

(***************************************************************************)
(* crews/simplified_crew.py: follow-up enhancement and the decision tiers  *)
(***************************************************************************)
\* re.search(label \s* (yes|no), text, re.IGNORECASE): the lower-cased
\* group, NONE when there is no match
SearchYesNo(text, label) ==
  LET up == Upper(text)
      Val(i) == LET j == SkipWs(up, i + Len(label))
                IN  IF Sub(up, j, j + 2) = "YES" THEN "yes"
                    ELSE IF Sub(up, j, j + 1) = "NO" THEN "no" ELSE NONE
      hits == { i \in 1..(Len(up) - Len(label) + 1) :
                  Sub(up, i, i + Len(label) - 1) = label /\ Val(i) # NONE }
  IN  IF hits = {} THEN NONE
      ELSE Val(CHOOSE k \in hits : \A m \in hits : k <= m)

\* re.search(r'FILTERS:\s*([^\n]+)', text, re.IGNORECASE): the stripped
\* group, "" when there is no match
SearchFilters(text) ==
  LET up == Upper(text)
      label == "FILTERS:"
      After(i) == i + Len(label)
      Hit(i) == /\ Sub(up, i, After(i) - 1) = label
                /\ \/ SkipWs(up, After(i)) <= Len(up)
                   \/ \E k \in After(i)..Len(up) : Ch(up, k) # "\n"
      hits == { i \in 1..(Len(up) - Len(label) + 1) : Hit(i) }
  IN  IF hits = {} THEN ""
      ELSE LET i == CHOOSE k \in hits : \A m \in hits : k <= m
           IN  Strip(TakeLine(text, SkipWs(text, After(i))))

\* SimplifiedCrew._parse_followup_enhancement, on what its four searches
\* found
followup_enhancement(intent_match, inherit_loc_match, inherit_time_match, filters, actual_location, actual_timeframe) ==
  [intent |-> IF intent_match # NONE THEN Lower(intent_match) ELSE "list",
   inherit_location |-> inherit_loc_match = "yes",
   inherit_time |-> inherit_time_match = "yes",
   location |-> IF inherit_loc_match = "yes" THEN actual_location ELSE "",
   timeframe |-> IF inherit_time_match = "yes" THEN actual_timeframe ELSE "",
   filters |-> filters,
   complete_geo_entities |-> <<>>]

\* SimplifiedCrew._parse_followup_enhancement
parse_followup_enhancement(llm_response, actual_location, actual_timeframe) ==
  followup_enhancement(SearchLabel(Upper(llm_response), "INTENT:", WordChars),
                       SearchYesNo(llm_response, "INHERIT_LOCATION:"),
                       SearchYesNo(llm_response, "INHERIT_TIME:"),
                       SearchFilters(llm_response),
                       actual_location, actual_timeframe)

\* the value of the first entity of a category, "" for an empty category
first_value(category) ==
  IF category # <<>> THEN category[1].value ELSE ""

\* a slip whose fallback context inherits the location alone
enhanced_followup_forgetting_time(llm, complete_geo_entities, last_location, last_timeframe) ==
  IF llm.kind = "ok"
  THEN [Classification("followup_enhanced", 90, 90,
                       "Follow-up query enhanced with LLM", "followup")
          EXCEPT !.enhanced_context =
            [parse_followup_enhancement(llm.text, last_location, last_timeframe)
               EXCEPT !.complete_geo_entities = complete_geo_entities]]
  ELSE [Classification("followup_enhanced", 80, 80,
                       "Simple follow-up detection", "followup")
          EXCEPT !.enhanced_context =
            [intent |-> "list", inherit_location |-> TRUE,
             inherit_time |-> FALSE, location |-> last_location,
             timeframe |-> "", filters |-> "",
             complete_geo_entities |-> complete_geo_entities]]

\* SimplifiedCrew._enhance_followup_with_llm, on the inherited location and
\* timeframe
enhanced_followup(llm, complete_geo_entities, last_location, last_timeframe) ==
  IF llm.kind = "ok"
  THEN [Classification("followup_enhanced", 90, 90,
                       "Follow-up query enhanced with LLM", "followup")
          EXCEPT !.enhanced_context =
            [parse_followup_enhancement(llm.text, last_location, last_timeframe)
               EXCEPT !.complete_geo_entities = complete_geo_entities]]
  ELSE [Classification("followup_enhanced", 80, 80,
                       "Simple follow-up detection", "followup")
          EXCEPT !.enhanced_context =
            [intent |-> "list", inherit_location |-> TRUE,
             inherit_time |-> TRUE, location |-> last_location,
             timeframe |-> last_timeframe, filters |-> "",
             complete_geo_entities |-> complete_geo_entities]]

\* SimplifiedCrew._enhance_followup_with_llm; llm is the answer of the
\* reasoner
enhance_followup_with_llm(user_query, session_context, llm) ==
  enhanced_followup(llm,
    DictGet(session_context.previous_entities, "geographic", <<>>),
    first_value(DictGet(session_context.previous_entities, "geographic", <<>>)),
    first_value(DictGet(session_context.previous_entities, "temporal", <<>>)))

\* a slip that tries the MSISDN pattern after the knowledge keywords
hard_rule_tier_keywords_first(user_query) ==
  IF ContainsAny(user_query, system_prompt_markers) THEN "system_prompt"
  ELSE IF ContainsAny(Lower(user_query), classify_knowledge_keywords)
  THEN "knowledge"
  ELSE IF msisdn_pattern_search(user_query) THEN "msisdn"
  ELSE ""

\* the decision tier of _classify_query that needs neither the session
\* store nor a reasoner: "system_prompt", "msisdn", "knowledge", or "" when
\* the query passes the three of them
hard_rule_tier(user_query) ==
  IF ContainsAny(user_query, system_prompt_markers) THEN "system_prompt"
  ELSE IF msisdn_pattern_search(user_query) THEN "msisdn"
  ELSE IF ContainsAny(Lower(user_query), classify_knowledge_keywords)
  THEN "knowledge"
  ELSE ""

\* a slip that asks the classification reasoner before it looks for a
\* follow-up
classify_tiers_classifier_first(user_query, session_context, fu, tier, llm_result) ==
  IF tier = "system_prompt"
  THEN Classification("system_prompt", 100, 0,
                      "System follow-up generation prompt - skip", "system_prompt")
  ELSE IF tier = "msisdn"
  THEN Classification("smartcare_query", 98, 98,
                      "MSISDN detected - SmartCare priority", "msisdn")
  ELSE IF tier = "knowledge"
  THEN Classification("knowledge_query", 95, 95,
                      "Hard rule: knowledge keywords detected", "knowledge")
  ELSE IF llm_result # LLM_RAISES THEN llm_result
  ELSE IF session_context.is_followup
  THEN enhance_followup_with_llm(user_query, session_context, fu)
  ELSE fallback_classification(user_query)

\* SimplifiedCrew._classify_query on the tier the hard rules decided and on
\* what the classification reasoner answered
classify_tiers(user_query, session_context, fu, tier, llm_result) ==
  IF tier = "system_prompt"
  THEN Classification("system_prompt", 100, 0,
                      "System follow-up generation prompt - skip", "system_prompt")
  ELSE IF tier = "msisdn"
  THEN Classification("smartcare_query", 98, 98,
                      "MSISDN detected - SmartCare priority", "msisdn")
  ELSE IF tier = "knowledge"
  THEN Classification("knowledge_query", 95, 95,
                      "Hard rule: knowledge keywords detected", "knowledge")
  ELSE IF session_context.is_followup
  THEN enhance_followup_with_llm(user_query, session_context, fu)
  ELSE IF llm_result # LLM_RAISES THEN llm_result
  ELSE fallback_classification(user_query)

\* SimplifiedCrew._classify_query; session_context is what
\* get_context_for_followup answers, llm the answer of the classification
\* reasoner, fu the answer of the follow-up reasoner
classify_query(user_query, session_context, llm, fu) ==
  classify_tiers(user_query, session_context, fu,
                 hard_rule_tier(user_query), llm_classify(llm))

(***************************************************************************)
(* crews/simplified_crew.py: routing and execute_query                     *)
(***************************************************************************)
\* SimplifiedCrew._analyze_query_type
analyze_query_type(query) ==
  LET query_lower == Lower(query)
  IN  IF ContainsAny(query_lower, {"summary", "ringkasan", "laporan", "rekap", "statistik"})
      THEN "summary"
      ELSE IF ContainsAny(query_lower, {"berapa", "jumlah", "total", "count"})
      THEN "count"
      ELSE IF ContainsAny(query_lower, {"tampilkan", "lihat", "show", "contoh", "list"})
      THEN "list"
      ELSE IF ContainsAny(query_lower, {"detail", "cc-", "order_id", "ticket"})
      THEN "detail"
      ELSE "list"

\* SimplifiedCrew._route_workflow, the count branch on what
\* build_and_execute answered
count_response(result) ==
  IF result.has_execution_result /\ result.execution_result.success
  THEN [response |-> "count", status |-> "success", error_type |-> NONE,
        entities |-> result.entities, db_executed |-> TRUE,
        api_calls |-> <<>>]
  ELSE [response |-> "Gagal menghitung keluhan", status |-> "error",
        error_type |-> NONE, entities |-> <<>>,
        db_executed |-> result.db_executed, api_calls |-> <<>>]

\* SimplifiedCrew._route_workflow, the count branch
route_count(mapping, user_query, db) ==
  count_response(build_and_execute(mapping, user_query, NoContext, db))

\* SimplifiedCrew._route_workflow (its smartcare branch is never taken:
\* _analyze_query_type does not answer "smartcare")
route_workflow(mapping, workflow_type, user_query, db) ==
  IF workflow_type = "detail"
  THEN detail_workflow_execute(mapping, user_query, NoContext, db)
  ELSE IF workflow_type = "summary"
  THEN summary_workflow_execute(mapping, user_query, NoContext, db)
  ELSE IF workflow_type = "count"
  THEN route_count(mapping, user_query, db)
  ELSE execute_list_workflow(mapping, user_query,
         [intent |-> workflow_type, inherit_location |-> FALSE,
          inherit_time |-> FALSE, location |-> "", timeframe |-> "",
          filters |-> "", complete_geo_entities |-> <<>>], db)

\* the answers of the handlers that consult nothing
handle_off_topic_query ==
  [response |-> "off_topic", status |-> "off_topic", error_type |-> NONE,
   entities |-> <<>>, db_executed |-> FALSE, api_calls |-> <<>>]

handle_system_inquiry ==
  [response |-> "system_inquiry", status |-> "system_inquiry", error_type |-> NONE,
   entities |-> <<>>, db_executed |-> FALSE, api_calls |-> <<>>]

system_prompt_response ==
  [response |-> "System prompt skipped", status |-> "system_prompt",
   error_type |-> NONE, entities |-> <<>>, db_executed |-> FALSE,
   api_calls |-> <<>>]

\* the outcomes of the collaborators one turn may consult
External(llm, fu, date, api, db, kb, frac) ==
  [llm |-> llm, fu |-> fu, date |-> date, api |-> api, db |-> db, kb |-> kb,
   frac |-> frac]

\* SimplifiedCrew.execute_query up to the session save: the workflow name
\* of the standard response, the handler's result and whether the turn is
\* saved
dispatch(mapping, user_query, classification, now, ext) ==
  LET category == classification.intent_category
      workflow_type == analyze_query_type(user_query)
  IN  IF category = "system_prompt"
      THEN [workflow |-> "system_prompt", result |-> system_prompt_response,
            saved |-> FALSE]
      ELSE IF category = "followup_enhanced"
      THEN [workflow |-> "followup",
            result |-> followup_workflow_execute(mapping, user_query,
                         classification.enhanced_context, ext.db),
            saved |-> TRUE]
      ELSE IF category = "knowledge_query"
      THEN [workflow |-> "knowledge",
            result |-> knowledge_workflow_execute(user_query, ext.kb),
            saved |-> TRUE]
      ELSE IF category = "off_topic"
      THEN [workflow |-> "off_topic", result |-> handle_off_topic_query,
            saved |-> FALSE]
      ELSE IF category = "system_inquiry"
      THEN [workflow |-> "system_inquiry", result |-> handle_system_inquiry,
            saved |-> FALSE]
      ELSE IF category = "smartcare_query"
      THEN [workflow |-> "smartcare",
            result |-> smartcare_execute(user_query, now, ext.frac, ext.date, ext.api),
            saved |-> TRUE]
      ELSE [workflow |-> workflow_type,
            result |-> route_workflow(mapping, workflow_type, user_query, ext.db),
            saved |-> TRUE]

(***************************************************************************)
(* The validator on its own: a number is drawn, then its methods are       *)
(* applied to it.                                                          *)
(***************************************************************************)

\* digits that follow the operator prefix
TailSource == "199217234567"

Tails == { Sub(TailSource, 1, n) : n \in MinTailLen..MaxTailLen }

OperatorCodes == valid_prefixes \cup {"800", "111", "880"}

\* what precedes the operator prefix 8xx in the spellings of a number
Forms == {"62", "0", "", "+62", "+0", "+", "628", "+628", "1"}

MsisdnInputs == { f \o c \o t : f \in Forms, c \in OperatorCodes, t \in Tails }

\* the builder, the SmartCare workflow and the crew before any call
NoArguments ==
  [query |-> "", context |-> <<>>, enhanced_context |-> NoContext,
   intent |-> NONE, entities |-> <<>>, db |-> NONE]

NoResponse ==
  [response |-> NONE, status |-> NONE, error_type |-> NONE,
   entities |-> <<>>, db_executed |-> FALSE, api_calls |-> <<>>]

NoResult ==
  [success |-> FALSE, error |-> NONE, intent |-> NONE, entities |-> <<>>,
   sql_query |-> NONE, has_execution_result |-> FALSE,
   execution_result |-> NoExecutionResult, db_executed |-> FALSE,
   narrative |-> NONE]

NoReturn ==
  [intent |-> NONE, entities |-> <<>>, sql |-> NONE, result |-> NoResult,
   response |-> NoResponse]

IdleA ==
  /\ client = NoClient
  /\ aCall = "idle"
  /\ aOut = NoClientCall
  /\ pending = NoCall
  /\ waited = 0
  /\ narratives = <<>>

IdleB ==
  /\ bCall = "idle"
  /\ bIn = NoArguments
  /\ bOut = NoReturn

NoAnswer == LLMAnswer("none", "")

NoLookup ==
  [query |-> "", now |-> 0, frac |-> FALSE, date |-> NoAnswer, api |-> NONE]

NoParse ==
  [raises |-> FALSE, success |-> FALSE, msisdn |-> NoValidation,
   time_range |-> NoTimeRange, intent |-> NONE, errors |-> <<>>]

\* the run of a query that does not come to the lookup
NoRun == <<NoScript, NONE, "unreached">>

\* the metadata of an answer that is not a maintenance response
NoMetadata ==
  [error_type |-> NONE, msisdn |-> NoValidation, error_details |-> NONE]

IdleS ==
  /\ sCall = "idle"
  /\ sIn = NoLookup
  /\ sOut = [parsed |-> NoParse, response |-> NoResponse, run |-> NoRun,
             lookup |-> NoApiResult, metadata |-> NoMetadata]

NoStandardResponse == [response |-> NONE, status |-> NONE, workflow |-> NONE]

NoTurn ==
  [query |-> "", session_id |-> NONE, llm |-> NoAnswer, fu |-> NoAnswer,
   context |-> NoFollowup,
   classification |-> Classification(NONE, 0, 0, "", NONE),
   workflow |-> NONE, result |-> NoResponse, saved |-> FALSE,
   fault |-> "none", found |-> <<>>, returned |-> FALSE,
   answer |-> NoStandardResponse]

IdleC ==
  /\ sessions = <<>>
  /\ clock = 0
  /\ turns = 0
  /\ last = NoTurn

\* the time parser before any call
NoInstant == -1

NoTimeCall ==
  [text |-> "", start_time |-> NONE, end_time |-> NONE,
   start_at |-> NoInstant, end_at |-> NoInstant, now |-> 0,
   frac |-> FALSE, llm |-> NoAnswer]

NoTimeReturn ==
  [parsed |-> [raises |-> FALSE, startTime |-> NONE, endTime |-> NONE,
               success |-> FALSE, fallback |-> NONE],
   validation |-> [valid |-> FALSE, error |-> NONE]]

IdleT ==
  /\ tCall = "idle"
  /\ tIn = NoTimeCall
  /\ tOut = NoTimeReturn

\* no interaction has arrived and no idle period has passed
IdleH ==
  /\ hCall = "idle"
  /\ hIn = [session_id |-> NONE, query |-> ""]
  /\ hOut = NoFollowup
  /\ arrivals = <<>>
  /\ idled = FALSE

InitM ==
  /\ IdleA
  /\ mIn \in MsisdnInputs
  /\ mCall = "input"
  /\ mRet = NONE
  /\ mPrev = NONE
  /\ mFlag = FALSE
  /\ mValidation = NoValidation
  /\ semantic_mapping = EmptyMapping
  /\ IdleB
  /\ IdleS
  /\ IdleT
  /\ IdleH
  /\ IdleC

IdleM ==
  /\ mIn = ""
  /\ mCall = "idle"
  /\ mRet = NONE
  /\ mPrev = NONE
  /\ mFlag = FALSE
  /\ mValidation = NoValidation

\* _normalize_msisdn(mIn)
CallNormalize ==
  /\ mCall = "input"
  /\ mCall' = "normalize"
  /\ mRet' = normalize_msisdn(mIn)
  /\ UNCHANGED <<aVars, mIn, mPrev, mFlag, mValidation>>
  /\ UNCHANGED <<aVars, semantic_mapping, bVars, sVars, cVars, tVars, hVars>>

\* _normalize_msisdn applied to its own result
CallRenormalize ==
  /\ mCall = "normalize"
  /\ mRet # NONE
  /\ mCall' = "renormalize"
  /\ mPrev' = mRet
  /\ mRet' = normalize_msisdn(mRet)
  /\ UNCHANGED <<aVars, mIn, mFlag, mValidation>>
  /\ UNCHANGED <<aVars, semantic_mapping, bVars, sVars, cVars, tVars, hVars>>

\* extract_msisdn on a query that contains mIn
CallExtract ==
  /\ mCall = "input"
  /\ \E pre \in {"", "cek ", "grafik "}, post \in {"", " kemarin"} :
       mRet' = extract_msisdn(pre \o mIn \o post)
  /\ mCall' = "extract"
  /\ UNCHANGED <<aVars, mIn, mPrev, mFlag, mValidation>>
  /\ UNCHANGED <<aVars, semantic_mapping, bVars, sVars, cVars, tVars, hVars>>

\* validate_msisdn(mIn)
CallValidate ==
  /\ mCall = "input"
  /\ mCall' = "validate"
  /\ mValidation' = validate_msisdn(mIn)
  /\ mFlag' = validate_msisdn(mIn).valid
  /\ UNCHANGED <<aVars, mIn, mRet, mPrev>>
  /\ UNCHANGED <<aVars, semantic_mapping, bVars, sVars, cVars, tVars, hVars>>

\* is_telkomsel_number(mIn), with the validation it computes on the way
CallIsTelkomsel ==
  /\ mCall = "input"
  /\ mCall' = "is_telkomsel"
  /\ mValidation' = validate_msisdn(mIn)
  /\ mFlag' = is_telkomsel_number(mIn)
  /\ UNCHANGED <<aVars, mIn, mRet, mPrev>>
  /\ UNCHANGED <<aVars, semantic_mapping, bVars, sVars, cVars, tVars, hVars>>

\* the two conversions to the 8xxx form, both applied to the normalised
\* number: mRet is normalize_for_api, mPrev is _convert_to_api_format
CallApiFormat ==
  /\ mCall = "normalize"
  /\ mRet # NONE
  /\ mCall' = "api_format"
  /\ mRet' = normalize_for_api(mRet)
  /\ mPrev' = convert_to_api_format(mRet)
  /\ mValidation' = [NoValidation EXCEPT !.normalized = mRet]
  /\ UNCHANGED <<aVars, mIn, mFlag>>
  /\ UNCHANGED <<aVars, semantic_mapping, bVars, sVars, cVars, tVars, hVars>>

NextM ==
  \/ CallNormalize
  \/ CallRenormalize
  \/ CallExtract
  \/ CallValidate
  \/ CallIsTelkomsel
  \/ CallApiFormat

SpecMsisdn == InitM /\ [][NextM]_vars

(***************************************************************************)
(* The query builder and the database workflows on their own: one of their *)
(* methods is called with a query, a context and, where the generated SQL  *)
(* reaches the database, an outcome of the database.  build_sql is also    *)
(* called on the entities extract_all_entities has just returned.          *)
(***************************************************************************)
BuilderQueries ==
  {"berapa keluhan di jakarta minggu ini", "berapa keluhan di jakbar",
   "ringkasan keluhan bandung bulan ini", "CC-20250603-00000475",
   "cek 08111992172", "tren keluhan surabaya", "berikan contohnya",
   "keluhan pelanggan corporate kemarin"}

\* the `context` argument of extract_all_entities
Contexts ==
  { <<>>,
    << <<"last_location", "Papua">>, <<"last_query_type", "count">> >>,
    << <<"last_location", "">>, <<"session", "abc">> >> }

GeoEntities(fields, value) ==
  [i \in 1..Len(fields) |-> Entity(fields[i], value, "contains", NONE, NONE)]

\* the already-resolved geographic entities of an enhanced context
CompleteGeoEntities ==
  { <<>>,
    GeoEntities(SampleMapping.geographic_fields, "Jakarta Barat"),
    GeoEntities(<<"provinsi_create_ticket">>, "Bandung") }

\* the `enhanced_context` argument of extract_all_entities
EnhancedContexts ==
  {NoContext} \cup
  { [intent |-> "list", inherit_location |-> l[1], location |-> l[2],
     inherit_time |-> t[1], timeframe |-> t[2], filters |-> f,
     complete_geo_entities |-> g] :
      l \in {<<FALSE, "">>, <<TRUE, "Bandung">>, <<TRUE, "">>, <<FALSE, "Bandung">>},
      t \in {<<FALSE, "">>, <<TRUE, "create_time >= dateTrunc('week', CURRENT_DATE)">>},
      f \in {"", "status_pending", "pending", "yang belum solve"},
      g \in CompleteGeoEntities }

\* the `enhanced_context` argument of the workflows
WorkflowContexts ==
  {NoContext} \cup
  { [intent |-> i, inherit_location |-> l[1], location |-> l[2],
     inherit_time |-> FALSE, timeframe |-> "", filters |-> l[3],
     complete_geo_entities |-> <<>>] :
      i \in {"list", "detail", "summary", "count"},
      l \in {<<FALSE, "", "">>, <<TRUE, "Bandung", "yang belum solve">>} }

\* the `intent` argument of build_sql
Intents == {"count", "list", "detail", "summary", "trend", ""}

\* entity sets build_sql is given besides those extract_all_entities returns
SampleEntitySets ==
  { <<>>,
    << <<"geographic", GeoEntities(<<"provinsi_create_ticket",
                                     "kabupaten_kota_create_ticket">>, "Jakarta")>>,
       <<"temporal", << Entity("create_time",
                               "create_time >= dateTrunc('month', CURRENT_DATE)",
                               "raw_sql", NONE, "month") >> >>,
       <<"status", << Entity("business_status", "BusinessStatusInProgress",
                             "exact_match", NONE, NONE) >> >>,
       <<"context", << Entity("last_location", "Papua", "inherited", NONE, NONE) >> >> >>,
    << <<"detail", << Entity("order_id", "CC-20250603-00000475",
                             "exact_match", "ticket_id", NONE),
                      Entity("customer_msisdn_create_ticket", "628111992172",
                             "exact_match", "msisdn", NONE) >> >>,
       <<"customer", << Entity("customer_type_create_ticket", "Corporate",
                               "categorical", NONE, NONE),
                        Entity("customer_type_create_ticket", "Consumer",
                               "categorical", NONE, NONE) >> >> >>,
    << <<"geographic", << Entity("provinsi_create_ticket", "", "contains",
                                 NONE, NONE) >> >>,
       <<"device", << Entity("handset_type", "IPHONE", NONE, NONE, NONE),
                      Entity("handset_os", "ios", "fuzzy", NONE, NONE) >> >> >>,
    << <<"context", << Entity("last_query_type", "list", "inherited",
                              NONE, NONE) >> >> >> }

\* the outcomes of the database for a query: none when build_and_execute
\* gives up before it reaches the database
DbFor(user_query, enhanced_context) ==
  IF build_and_execute(semantic_mapping, user_query, enhanced_context, NONE).db_executed
  THEN DbOutcomes ELSE {NONE}

InitB ==
  /\ IdleA
  /\ semantic_mapping \in Mappings
  /\ IdleB
  /\ IdleM
  /\ IdleS
  /\ IdleT
  /\ IdleH
  /\ IdleC

\* a method of the builder has run
Ran(name, arguments, return) ==
  /\ bCall' = name
  /\ bIn' = arguments
  /\ bOut' = return
  /\ UNCHANGED <<aVars, semantic_mapping, mVars, sVars, cVars, tVars, hVars>>

CallDetectIntent ==
  /\ bCall = "idle"
  /\ \E q \in BuilderQueries :
       Ran("detect_intent", [NoArguments EXCEPT !.query = q],
           [NoReturn EXCEPT !.intent = detect_intent(semantic_mapping, q)])

CallExtractAllEntities ==
  /\ bCall = "idle"
  /\ \E q \in BuilderQueries, ctx \in Contexts, ec \in EnhancedContexts :
       Ran("extract_all_entities",
           [NoArguments EXCEPT !.query = q, !.context = ctx,
                               !.enhanced_context = ec],
           [NoReturn EXCEPT
              !.entities = extract_all_entities(semantic_mapping, q, ctx, ec)])

CallBuildSql ==
  /\ bCall \in {"idle", "extract_all_entities"}
  /\ \E intent \in Intents,
        entities \in IF bCall = "idle" THEN SampleEntitySets ELSE {bOut.entities} :
       Ran("build_sql",
           [NoArguments EXCEPT !.intent = intent, !.entities = entities],
           [NoReturn EXCEPT !.sql = build_sql(semantic_mapping, intent, entities)])

CallAnalyzeAndBuildQuery ==
  /\ bCall = "idle"
  /\ \E q \in BuilderQueries, ctx \in Contexts :
       LET r == analyze_and_build_query(semantic_mapping, q, ctx)
       IN  Ran("analyze_and_build_query",
               [NoArguments EXCEPT !.query = q, !.context = ctx],
               [NoReturn EXCEPT !.intent = r.intent, !.entities = r.entities,
                                !.sql = r.sql])

CallBuildAndExecute ==
  /\ bCall = "idle"
  /\ \E q \in BuilderQueries, ec \in WorkflowContexts :
       \E db \in DbFor(q, ec) :
         LET r == build_and_execute(semantic_mapping, q, ec, db)
         IN  Ran("build_and_execute",
                 [NoArguments EXCEPT !.query = q, !.enhanced_context = ec,
                                     !.db = db],
                 [NoReturn EXCEPT !.intent = r.intent, !.entities = r.entities,
                                  !.sql = r.sql_query, !.result = r])

\* a workflow has answered a query
Answered(name, q, ec, db, response) ==
  Ran(name,
      [NoArguments EXCEPT !.query = q, !.enhanced_context = ec, !.db = db],
      [NoReturn EXCEPT !.response = response])

CallSummaryWorkflow ==
  /\ bCall = "idle"
  /\ \E q \in BuilderQueries, ec \in WorkflowContexts :
       \E db \in DbFor(q, ec) :
         Answered("summary_workflow", q, ec, db,
                  summary_workflow_execute(semantic_mapping, q, ec, db))

CallDetailWorkflow ==
  /\ bCall = "idle"
  /\ \E q \in BuilderQueries, ec \in WorkflowContexts :
       \E db \in DbFor(q, ec) :
         Answered("detail_workflow", q, ec, db,
                  detail_workflow_execute(semantic_mapping, q, ec, db))

CallFollowupWorkflow ==
  /\ bCall = "idle"
  /\ \E q \in BuilderQueries, ec \in WorkflowContexts :
       \E db \in DbFor(q, ec) :
         Answered("followup_workflow", q, ec, db,
                  followup_workflow_execute(semantic_mapping, q, ec, db))

\* SimplifiedCrew._route_workflow on the type _analyze_query_type gives
CallRouteWorkflow ==
  /\ bCall = "idle"
  /\ \E q \in BuilderQueries :
       \E db \in DbFor(q, NoContext) :
         Ran("route_workflow",
             [NoArguments EXCEPT !.query = q, !.db = db,
                                 !.intent = analyze_query_type(q)],
             [NoReturn EXCEPT
                !.response = route_workflow(semantic_mapping,
                                            analyze_query_type(q), q, db)])

NextB ==
  \/ CallDetectIntent
  \/ CallExtractAllEntities
  \/ CallBuildSql
  \/ CallAnalyzeAndBuildQuery
  \/ CallBuildAndExecute
  \/ CallSummaryWorkflow
  \/ CallDetailWorkflow
  \/ CallFollowupWorkflow
  \/ CallRouteWorkflow

SpecBuilder == InitB /\ [][NextB]_vars

(***************************************************************************)
(* The SmartCare workflow on its own: a query is parsed, or executed, at a *)
(* reading of the clock; the date reasoner and the telecom API answer      *)
(* where the code consults them.                                           *)
(***************************************************************************)
SmartCareQueries ==
  {"cek 08111992172 jam 10", "cek 08571234567", "cek 0811992172",
   "cek 08111992172 40 hari lalu", "cek 08111992172 999999999 jam lalu",
   "grafik 8111992172 kemarin", "cek 08571234567 40 hari lalu",
   "riwayat 6288571234567 2 jam lalu", "halo"}

\* datetime.now(), to the minute
ClockReadings == {DateTime(2025, 7, 1, 10, 17), DateTime(2025, 7, 31, 0, 5)}

\* the answers of the date reasoner
DateAnswers ==
  {LLMAnswer("exception", ""), LLMAnswer("status", ""),
   LLMAnswer("ok", "2025-06-30 00:00,2025-06-30 23:59"),
   LLMAnswer("ok", "2025-01-01 00:00,2025-01-01 23:59"),
   LLMAnswer("ok", "tidak ada tanggal")}

\* the answers of the date reasoner for a query: none when a fixed pattern
\* decides
DateAnswersFor(user_query, now) ==
  IF time_needs_llm(user_query, now) THEN DateAnswers ELSE {NoAnswer}

\* datetime.now() of the client, in seconds since midnight
SecondOfDay(now) == (now % MinutesPerDay) * SecondsPerMinute

\* query_user_history is reached unless execute answers before it
ReachesLookup(user_query, now, frac, llm) ==
  smartcare_execute(user_query, now, frac, llm, NONE).api_calls # <<>>

\* the outcomes of the telecom API for a query: none when execute answers
\* before it calls query_user_history
ApiFor(user_query, now, frac, llm) ==
  IF ReachesLookup(user_query, now, frac, llm) THEN ApiOutcomes ELSE {NONE}

\* the ways the lookup of a query can go: the answers to the requests of
\* the client, the body of a 200 answer, and a client that raises
LookupRuns(user_query, now, frac, llm, cl) ==
  IF ~ReachesLookup(user_query, now, frac, llm)
  THEN {NoRun}
  ELSE { <<script, body, "none">> :
           script \in ApiScripts(cl, SecondOfDay(now)),
           body \in LookupBodies }
       \cup {<<NoScript, NONE, "exception">>}

\* the lookup of a run
RunResult(run, cl, now) ==
  IF run[3] = "unreached"
  THEN NoApiResult
  ELSE api_result(cl, SecondOfDay(now), run[1], run[2], run[3])

InitS ==
  /\ IdleA
  /\ semantic_mapping = EmptyMapping
  /\ IdleS
  /\ IdleT
  /\ IdleH
  /\ IdleM
  /\ IdleB
  /\ IdleC

CallParseQuery ==
  /\ sCall = "idle"
  /\ \E q \in SmartCareQueries, now \in ClockReadings, frac \in BOOLEAN :
       \E llm \in DateAnswersFor(q, now) :
         /\ sCall' = "parse_query"
         /\ sIn' = [query |-> q, now |-> now, frac |-> frac, date |-> llm,
                    api |-> NONE]
         /\ sOut' = [parsed |-> parse_query(q, now, frac, llm),
                     response |-> NoResponse, run |-> NoRun,
                     lookup |-> NoApiResult, metadata |-> NoMetadata]
         /\ UNCHANGED <<aVars, semantic_mapping, mVars, bVars, cVars, tVars, hVars>>

CallSmartCareExecute ==
  /\ sCall = "idle"
  /\ \E q \in SmartCareQueries, now \in ClockReadings, frac \in BOOLEAN :
       \E llm \in DateAnswersFor(q, now) :
         \E run \in LookupRuns(q, now, frac, llm, client) :
           LET lookup == RunResult(run, client, now)
               parsed == parse_query(q, now, frac, llm)
               answer == smartcare_execute(q, now, frac, llm, lookup.api)
           IN  /\ sCall' = "execute"
               /\ sIn' = [query |-> q, now |-> now, frac |-> frac, date |-> llm,
                          api |-> lookup.api]
               /\ sOut' = [parsed |-> parsed, response |-> answer,
                           run |-> run, lookup |-> lookup,
                           metadata |->
                             IF answer.status = "api_maintenance"
                             THEN create_maintenance_response(
                                    parsed.msisdn, lookup.error).metadata
                             ELSE NoMetadata]
               /\ client' = lookup.client
               /\ UNCHANGED <<aCall, aOut, pending, waited, narratives, semantic_mapping,
                              mVars, bVars, cVars, tVars, hVars>>

NextS ==
  \/ CallParseQuery
  \/ CallSmartCareExecute

SpecSmartCare == InitS /\ [][NextS]_vars

(***************************************************************************)
(* _classify_query on its own: a session store as save_interaction leaves  *)
(* it, then one query is classified; the classification reasoner and the   *)
(* follow-up reasoner answer in every way they can.                        *)
(***************************************************************************)
SessionIds == {"s1"}

\* time.time() when the query arrives
StartClock == 5000

EmptyStore == [sid \in SessionIds |-> NoSession]

CountQuery == "berapa keluhan di jakarta minggu ini"

\* the store after a count query a minute ago
StoreAfterCount(at) ==
  save_interaction(EmptyStore, "s1", at, CountQuery, "count", "count",
                   extract_all_entities(SampleMapping, CountQuery, <<>>, NoContext))

Stores ==
  { EmptyStore,
    StoreAfterCount(StartClock - 60),
    StoreAfterCount(StartClock - max_session_age - 400),
    save_interaction(EmptyStore, "s1", StartClock - 60,
                     "cek 08111992172 jam 10", "check", "smartcare", <<>>),
    save_interaction(StoreAfterCount(StartClock - 120), "s1", StartClock - 60,
                     "bagaimana cara troubleshoot internet", "answer",
                     "knowledge", <<>>) }

CrewQueries ==
  {"### Task: cek 08111992172", "cek 08111992172 jam 10", "cek 08571234567",
   "cara cek 628111992172", "berikan contohnya 08571234567",
   "resep 08111992172", "grafik 8111992172 kemarin",
   "bagaimana cara troubleshoot internet", "berikan contohnya",
   "yang belum solve", "berapa keluhan di jakarta minggu ini",
   "ringkasan keluhan bandung bulan ini", "CC-20250603-00000475",
   "siapa kamu", "resep nasi padang", "halo", "tren keluhan surabaya",
   "Suggest follow-up questions"}

\* the answers of the classification reasoner
ClassifierAnswers ==
  { LLMAnswer("exception", ""), LLMAnswer("status", ""), LLMAnswer("nojson", ""),
    LLMAnswer("ok", "CLASSIFICATION: COMPLAINT\nCONFIDENCE: 0.9\nREASONING: x"),
    LLMAnswer("ok", "CLASSIFICATION: SMARTCARE\nCONFIDENCE: 0.95\nREASONING: x"),
    LLMAnswer("ok", "classification: knowledge_query\nconfidence: 0.8"),
    LLMAnswer("ok", "CLASSIFICATION: SYSTEM_INQUIRY"),
    LLMAnswer("ok", "CLASSIFICATION: OFF_TOPIC\nCONFIDENCE: 1"),
    LLMAnswer("ok", "CLASSIFICATION: BANANA\nCONFIDENCE: 0.5"),
    LLMAnswer("ok", "CLASSIFICATION: [COMPLAINT]\nCONFIDENCE: [0.9]"),
    LLMAnswer("ok", "CLASSIFICATION: COMPLAINT\nCONFIDENCE: 1.2.3"),
    LLMAnswer("ok", "CONFIDENCE: ."),
    LLMAnswer("ok", "maaf, saya tidak tahu"),
    LLMAnswer("ok", "") }

\* the answers of the follow-up reasoner
FollowupAnswers ==
  { LLMAnswer("exception", ""), LLMAnswer("status", ""),
    LLMAnswer("ok", "INTENT: list\nINHERIT_LOCATION: yes\nINHERIT_TIME: yes\nFILTERS: status_pending"),
    LLMAnswer("ok", "intent: Count\ninherit_location: NO\ninherit_time: Yes\nfilters: yang belum solve"),
    LLMAnswer("ok", "INTENT: trend"),
    LLMAnswer("ok", "maaf") }

InitQ ==
  /\ IdleA
  /\ semantic_mapping = SampleMapping
  /\ sessions \in Stores
  /\ clock = StartClock
  /\ turns = 0
  /\ last = NoTurn
  /\ IdleM
  /\ IdleB
  /\ IdleS
  /\ IdleT
  /\ IdleH

\* SimplifiedCrew._classify_query: the store is read, and a missing or
\* expired session replaced, only when the query passes the hard rules
CallClassifyQuery ==
  /\ turns = 0
  /\ \E q \in CrewQueries, sid \in SessionIds,
        llm \in ClassifierAnswers, fu \in FollowupAnswers :
       LET reached == hard_rule_tier(q) = ""
           context == IF reached
                      THEN get_context_for_followup(sessions, sid, clock, q)
                      ELSE NoFollowup
       IN  /\ sessions' = IF reached THEN get_session(sessions, sid, clock)
                          ELSE sessions
           /\ last' = [NoTurn EXCEPT
                         !.query = q, !.session_id = sid, !.llm = llm,
                         !.fu = fu, !.context = context,
                         !.found = get_session(sessions, sid, clock)[sid].conversation_history,
                         !.classification = classify_query(q, context, llm, fu)]
           /\ turns' = 1
           /\ UNCHANGED <<aVars, clock, semantic_mapping, mVars, bVars, sVars, tVars, hVars>>

NextQ == CallClassifyQuery

SpecClassify == InitQ /\ [][NextQ]_vars

(***************************************************************************)
(* execute_query on its own: a session store as earlier turns left it,     *)
(* then one query is processed, from the classification to the session     *)
(* save and the standard response.                                         *)
(***************************************************************************)

\* SimplifiedCrew._create_standard_response: the text, the status and the
\* workflow name of the record
create_standard_response(workflow_type, execution_result) ==
  [response |-> execution_result.response, status |-> execution_result.status,
   workflow |-> workflow_type]

\* the result an except clause of execute_query hands to
\* _create_standard_response
handler_result(text, status) ==
  [response |-> text, status |-> status, error_type |-> NONE,
   entities |-> <<>>, db_executed |-> FALSE, api_calls |-> <<>>]

\* where a turn meets an exception that is not an outcome of the reasoners,
\* the database, the telecom API or the knowledge base (the workflows turn
\* those into results themselves): nowhere, in the session store, or in the
\* workflow the turn runs, as an Exception or as a ZeroDivisionError
Faults == {"none", "store", "workflow", "zero_division"}

\* SimplifiedCrew._classify_query with the session store it reads: the
\* store is read, and a missing or expired session replaced, only when the
\* query passes the hard rules; an exception of the store ends in
\* _fallback_classification
classify_with_store(store, user_query, session_id, now, llm, fu, fault) ==
  IF hard_rule_tier(user_query) # ""
  THEN [sessions |-> store, context |-> NoFollowup,
        classification |-> classify_query(user_query, NoFollowup, llm, fu)]
  ELSE IF fault = "store"
  THEN [sessions |-> store, context |-> NoFollowup,
        classification |-> fallback_classification(user_query)]
  ELSE [sessions |-> get_session(store, session_id, now),
        context |-> get_context_for_followup(store, session_id, now, user_query),
        classification |->
          classify_query(user_query,
                         get_context_for_followup(store, session_id, now, user_query),
                         llm, fu)]

\* the workflows of a turn that consult nothing
AnsweredInPlace == {"system_prompt", "off_topic", "system_inquiry"}

\* SimplifiedCrew.execute_query after the classification, for an exception
\* raised in the workflow of the turn: the follow-up and the SmartCare
\* branch leave it to the outer except clause, _handle_knowledge_query
\* answers with its fallback, the count branch of _route_workflow with its
\* error result, the other data branches have the two inner except clauses
raised_in_workflow(d, fault) ==
  IF d.workflow \in {"followup", "smartcare"}
  THEN [workflow |-> "error", saved |-> FALSE,
        result |-> handler_result("Maaf, terjadi kesalahan dalam memproses query",
                                  "error")]
  ELSE IF d.workflow = "knowledge"
  THEN [workflow |-> "knowledge", saved |-> TRUE,
        result |-> handler_result("Maaf, saya memerlukan informasi lebih spesifik",
                                  "knowledge_fallback")]
  ELSE IF d.workflow = "count"
  THEN [workflow |-> "count", saved |-> TRUE,
        result |-> handler_result("Error dalam counting", "error")]
  ELSE IF fault = "zero_division"
  THEN [workflow |-> "error", saved |-> FALSE,
        result |-> handler_result("Maaf, terjadi kesalahan perhitungan",
                                  "calculation_error")]
  ELSE [workflow |-> "error", saved |-> FALSE,
        result |-> handler_result("Maaf, terjadi kesalahan dalam workflow",
                                  "workflow_error")]

\* a slip that does without the outer except clause: the exception of a
\* follow-up or SmartCare workflow leaves execute_query
handled_unguarded(d, fault) ==
  IF fault \in {"workflow", "zero_division"} /\ d.workflow \in {"followup", "smartcare"}
  THEN [workflow |-> NONE, saved |-> FALSE, result |-> NoResponse]
  ELSE IF fault \in {"workflow", "zero_division"} /\ d.workflow \notin AnsweredInPlace
  THEN raised_in_workflow(d, fault)
  ELSE d

\* SimplifiedCrew.execute_query after the classification: d is what the
\* branch of the turn answers when nothing is raised
handled(d, fault) ==
  IF fault \in {"workflow", "zero_division"} /\ d.workflow \notin AnsweredInPlace
  THEN raised_in_workflow(d, fault)
  ELSE d

\* SimplifiedCrew._save_session_interaction: an exception of the store is
\* printed and the turn goes on
save_session_interaction(store, session_id, now, user_query, result, workflow_type, fault) ==
  IF fault = "store" THEN store
  ELSE save_interaction(store, session_id, now, user_query, result.response,
                        workflow_type, result.entities)

\* SimplifiedCrew.execute_query for a query that is not a string: the
\* slice of line 59 raises and the outer except clause answers
not_a_string ==
  [workflow |-> "error", saved |-> FALSE,
   result |-> handler_result("Maaf, terjadi kesalahan dalam memproses query",
                             "error")]

\* the queries of a turn; None is the content of a message without text
CrewInputs ==
  {NONE, "### Task: cek 08111992172", "cek 08111992172 jam 10",
   "bagaimana cara troubleshoot internet", "berikan contohnya",
   "yang belum solve di jakarta", "berapa keluhan di jakarta minggu ini",
   "ringkasan keluhan bandung bulan ini", "CC-20250603-00000475",
   "cc-20250603-00000475", "siapa kamu", "resep nasi padang",
   "tampilkan keluhan", "statistik keluhan jakarta"}

SummaryQuery == "ringkasan keluhan bandung bulan ini"

\* the store after a summary for Bandung this month, a minute ago
StoreAfterSummary ==
  save_interaction(EmptyStore, "s1", StartClock - 60, SummaryQuery, "summary",
                   "summary",
                   extract_all_entities(SampleMapping, SummaryQuery, <<>>, NoContext))

\* the store after n more count queries
RECURSIVE StoreAfterCounts(_, _)
StoreAfterCounts(store, n) ==
  IF n = 0 THEN store
  ELSE StoreAfterCounts(
         save_interaction(store, "s1", StartClock - 60 - n, CountQuery, "count",
                          "count",
                          extract_all_entities(SampleMapping, CountQuery, <<>>, NoContext)),
         n - 1)

CrewStores ==
  Stores \cup {StoreAfterSummary, StoreAfterCounts(StoreAfterSummary, history_limit - 1)}

\* the answers of the classification reasoner a turn can meet
ClassifiersFor(store, user_query, session_id, now, fault) ==
  IF \/ hard_rule_tier(user_query) # ""
     \/ fault = "store"
     \/ get_context_for_followup(store, session_id, now, user_query).is_followup
  THEN {NoAnswer} ELSE ClassifierAnswers

\* the answers of the follow-up reasoner a turn can meet
FollowupsFor(store, user_query, session_id, now, fault) ==
  IF /\ hard_rule_tier(user_query) = ""
     /\ fault # "store"
     /\ get_context_for_followup(store, session_id, now, user_query).is_followup
  THEN FollowupAnswers ELSE {NoAnswer}

\* the outcomes of the database a turn can meet
DatabaseFor(user_query, classification, fault) ==
  IF fault \in {"workflow", "zero_division"} THEN {NONE}
  ELSE IF classification.intent_category = "followup_enhanced"
  THEN DbFor(user_query, classification.enhanced_context)
  ELSE IF classification.intent_category = "ticket_analysis"
  THEN DbOutcomes
  ELSE {NONE}

\* the outcomes of the knowledge base a turn can meet
KnowledgeFor(classification, fault) ==
  IF classification.intent_category = "knowledge_query" /\ fault \notin {"workflow", "zero_division"}
  THEN KnowledgeOutcomes ELSE {"answer"}

\* the answers of the date reasoner a turn can meet
DatesFor(user_query, classification, now, fault) ==
  IF classification.intent_category = "smartcare_query" /\ fault \notin {"workflow", "zero_division"}
  THEN DateAnswersFor(user_query, now) ELSE {NoAnswer}

\* the outcomes of the telecom API a turn can meet
TelecomFor(user_query, classification, now, date, fault) ==
  IF classification.intent_category = "smartcare_query" /\ fault \notin {"workflow", "zero_division"}
  THEN ApiFor(user_query, now, FALSE, date) ELSE {NONE}

InitX ==
  /\ IdleA
  /\ semantic_mapping = SampleMapping
  /\ sessions \in CrewStores
  /\ clock = StartClock
  /\ turns = 0
  /\ last = NoTurn
  /\ IdleM
  /\ IdleB
  /\ IdleS
  /\ IdleT
  /\ IdleH

\* the turn of execute_query on what the classification answered (c) and
\* what the branch of the turn did with it (h)
Turn(user_query, session_id, llm, fu, fault, c, h) ==
  /\ sessions' = IF h.saved
                 THEN save_session_interaction(c.sessions, session_id, clock,
                                               user_query, h.result, h.workflow, fault)
                 ELSE c.sessions
  /\ last' = [query |-> user_query, session_id |-> session_id, llm |-> llm,
              fu |-> fu, context |-> c.context,
              classification |-> c.classification,
              workflow |-> h.workflow, result |-> h.result,
              saved |-> h.saved /\ fault # "store", fault |-> fault,
              found |-> get_session(sessions, session_id, clock)[session_id].conversation_history,
              returned |-> h.workflow # NONE,
              answer |-> IF h.workflow # NONE
                         THEN create_standard_response(h.workflow, h.result)
                         ELSE NoStandardResponse]
  /\ turns' = 1
  /\ UNCHANGED <<aVars, clock, semantic_mapping, mVars, bVars, sVars, tVars, hVars>>

\* the turn of a query on what _classify_query answered
Classified(user_query, session_id, llm, fu, fault, c) ==
  \E db \in DatabaseFor(user_query, c.classification, fault),
     kb \in KnowledgeFor(c.classification, fault),
     date \in DatesFor(user_query, c.classification, clock, fault) :
    \E api \in TelecomFor(user_query, c.classification, clock, date, fault) :
      Turn(user_query, session_id, llm, fu, fault, c,
           handled(dispatch(semantic_mapping, user_query, c.classification, clock,
                            External(llm, fu, date, api, db, kb, FALSE)),
                   fault))

\* SimplifiedCrew.execute_query for a query that is a string
ExecuteQuery ==
  /\ turns = 0
  /\ \E q \in CrewInputs \ {NONE}, sid \in SessionIds, fault \in Faults :
       \E llm \in ClassifiersFor(sessions, q, sid, clock, fault),
          fu \in FollowupsFor(sessions, q, sid, clock, fault) :
         Classified(q, sid, llm, fu, fault,
                    classify_with_store(sessions, q, sid, clock, llm, fu, fault))

\* SimplifiedCrew.execute_query for a message without text
ExecuteQueryNone ==
  /\ turns = 0
  /\ \E sid \in SessionIds, fault \in Faults :
       Turn(NONE, sid, NoAnswer, NoAnswer, fault,
            [sessions |-> sessions, context |-> NoFollowup,
             classification |-> Classification(NONE, 0, 0, "", NONE)],
            not_a_string)

NextX ==
  \/ ExecuteQuery
  \/ ExecuteQueryNone

SpecCrew == InitX /\ [][NextX]_vars

(***************************************************************************)
(* The time parser on its own: a text is resolved at a reading of the      *)
(* clock, or a pair of formatted instants is validated.                    *)
(***************************************************************************)
\* the counts of "N jam lalu"
HourCounts ==
  {"0", "1", "2", "02", "3", "10", "11", "23", "24", "25", "48", "100",
   "721", "17756000", "999999999", "99999999999"}

\* the hours of "jam N"
HoursOfDay == 0..23

\* one text per pattern of _try_parse_patterns, in the order the method
\* tries them
PatternTexts ==
  << "2 jam lalu", "30 menit lalu", "jam 10", "10:30", "hari ini", "kemarin",
     "2 hari lalu", "pagi ini", "siang tadi", "sore ini", "malam tadi",
     "01/07/2025" >>

\* the texts that match two patterns, either one first
PairTexts ==
  { PatternTexts[p[1]] \o " " \o PatternTexts[p[2]] :
      p \in { q \in (DOMAIN PatternTexts) \X (DOMAIN PatternTexts) : q[1] # q[2] } }

\* texts whose first match has a value out of range
OutOfRangeTexts ==
  { "jam 25", "jam 25 kemarin", "kemarin jam 25", "25:00 kemarin",
    "10:75 hari ini", "jam 24 10:30", "32/13/2025", "31/02/2025 halo",
    "999999999 jam lalu kemarin", "99999999999 menit lalu jam 10",
    "99999999999 hari lalu pagi ini" }

TimeTexts ==
  { n \o " jam lalu" : n \in HourCounts }
    \cup { "jam " \o IntToStr(h) : h \in HoursOfDay }
    \cup { "2 jam yang lalu", "2 Hours Lalu", "cek 08111992172 jam 10",
           "jam 24", "30 menit lalu", "kemarin", "10:30", "halo" }
    \cup PairTexts \cup OutOfRangeTexts

\* datetime.now(), to the minute
TimeClockReadings ==
  ClockReadings \cup {DateTime(2025, 1, 1, 1, 0), DateTime(2024, 3, 1, 0, 59)}

\* the instants handed to validate_time_range, in minutes from now
Offsets ==
  { -31 * MinutesPerDay, -30 * MinutesPerDay - 1, -30 * MinutesPerDay,
    -30 * MinutesPerDay + 1, -1, 0, 1, MinutesPerDay, MinutesPerDay + 1,
    2 * MinutesPerDay }

\* strings strptime rejects
Malformed == {"2025-13-01 00:00", "kemarin"}

InitT ==
  /\ IdleA
  /\ semantic_mapping = EmptyMapping
  /\ IdleT
  /\ IdleM
  /\ IdleB
  /\ IdleS
  /\ IdleC
  /\ IdleH

\* TimeParser.parse_time_expression
CallParseTimeExpression ==
  /\ tCall = "idle"
  /\ \E text \in TimeTexts, now \in TimeClockReadings :
       \E llm \in DateAnswersFor(text, now) :
         /\ tCall' = "parse_time_expression"
         /\ tIn' = [NoTimeCall EXCEPT !.text = text, !.now = now, !.llm = llm]
         /\ tOut' = [NoTimeReturn EXCEPT
                       !.parsed = parse_time_expression(text, now, llm)]
         /\ UNCHANGED <<aVars, semantic_mapping, mVars, bVars, sVars, cVars, hVars>>

\* TimeParser.validate_time_range on two formatted instants
CallValidateTimeRange ==
  /\ tCall = "idle"
  /\ \E now \in ClockReadings, frac \in BOOLEAN, a \in Offsets, b \in Offsets :
       /\ tCall' = "validate_time_range"
       /\ tIn' = [NoTimeCall EXCEPT
                    !.start_time = Strftime(now + a), !.end_time = Strftime(now + b),
                    !.start_at = now + a, !.end_at = now + b,
                    !.now = now, !.frac = frac]
       /\ tOut' = [NoTimeReturn EXCEPT
                     !.validation = validate_time_range(Strftime(now + a),
                                      Strftime(now + b), now, frac)]
       /\ UNCHANGED <<aVars, semantic_mapping, mVars, bVars, sVars, cVars, hVars>>

\* TimeParser.validate_time_range on a string strptime rejects
CallValidateMalformed ==
  /\ tCall = "idle"
  /\ \E now \in ClockReadings, frac \in BOOLEAN, bad \in Malformed,
        first \in BOOLEAN :
       LET good == Strftime(now)
           start_time == IF first THEN bad ELSE good
           end_time == IF first THEN good ELSE bad
       IN  /\ tCall' = "validate_time_range"
           /\ tIn' = [NoTimeCall EXCEPT
                        !.start_time = start_time, !.end_time = end_time,
                        !.now = now, !.frac = frac]
           /\ tOut' = [NoTimeReturn EXCEPT
                         !.validation = validate_time_range(start_time, end_time,
                                                            now, frac)]
           /\ UNCHANGED <<aVars, semantic_mapping, mVars, bVars, sVars, cVars, hVars>>

NextT ==
  \/ CallParseTimeExpression
  \/ CallValidateTimeRange
  \/ CallValidateMalformed

SpecTime == InitT /\ [][NextT]_vars

(***************************************************************************)
(* The session manager on its own: interactions are saved to two           *)
(* conversations and the follow-up context of a query is asked for; once,  *)
(* the store is left alone for about the maximal age of a session.         *)
(***************************************************************************)
Conversations == {"s1", "s2"}

\* SessionManager.sessions after __init__
NoConversation == [sid \in Conversations |-> NoSession]

\* the turn saved to a conversation: its n-th answer is the text of n
SavedTurn(session_id, n) ==
  IF session_id = "s1"
  THEN [query |-> CountQuery, response |-> IntToStr(n), query_type |-> "count",
        entities |->
          << <<"geographic",
               GeoEntities(<<"kabupaten_kota_create_ticket">>, "Jakarta")>>,
             <<"temporal",
               << Entity("create_time", "minggu ini", "time_expression",
                         NONE, "week") >> >> >>]
  ELSE [query |-> "cek 08111992172 jam 10", response |-> IntToStr(n),
        query_type |-> "smartcare", entities |-> <<>>]

\* the queries get_context_for_followup is asked about
ContextQueries == {"berikan contohnya", "Yang Mana?", "halo"}

\* the idle periods: the maximal age of a session, and a second more
IdlePeriods == {max_session_age, max_session_age + 1}

\* a session the next call of get_session removes
Expired(store, sid, current_time) ==
  /\ store[sid] # NoSession
  /\ current_time - store[sid].last_activity > max_session_age

\* the arrivals of the sessions that outlive a call at current_time
Surviving(store, current_time, arrived) ==
  [sid \in DOMAIN arrived |->
     IF Expired(store, sid, current_time) THEN <<>> ELSE arrived[sid]]

InitH ==
  /\ IdleA
  /\ semantic_mapping = EmptyMapping
  /\ sessions = NoConversation
  /\ clock = 0
  /\ turns = 0
  /\ last = NoTurn
  /\ hCall = "idle"
  /\ hIn = [session_id |-> NONE, query |-> ""]
  /\ hOut = NoFollowup
  /\ arrivals = [sid \in Conversations |-> <<>>]
  /\ idled = FALSE
  /\ IdleM
  /\ IdleB
  /\ IdleS
  /\ IdleT

\* SessionManager.save_interaction
CallSaveInteraction ==
  /\ turns < MaxSaves
  /\ \E sid \in Conversations :
       LET alive == Surviving(sessions, clock, arrivals)
           turn == SavedTurn(sid, Len(alive[sid]) + 1)
       IN  /\ sessions' = save_interaction(sessions, sid, clock, turn.query,
                             turn.response, turn.query_type, turn.entities)
           /\ arrivals' = [alive EXCEPT ![sid] =
                             Append(@, [timestamp |-> clock, query |-> turn.query,
                                        response |-> turn.response,
                                        query_type |-> turn.query_type,
                                        entities |-> turn.entities])]
           /\ hCall' = "save_interaction"
           /\ hIn' = [session_id |-> sid, query |-> turn.query]
           /\ hOut' = NoFollowup
           /\ turns' = turns + 1
           /\ UNCHANGED <<aVars, clock, last, idled, semantic_mapping, mVars, bVars,
                          sVars, tVars>>

\* SessionManager.get_context_for_followup
CallGetContextForFollowup ==
  \E sid \in Conversations, q \in ContextQueries :
    /\ sessions' = get_session(sessions, sid, clock)
    /\ arrivals' = Surviving(sessions, clock, arrivals)
    /\ hCall' = "get_context_for_followup"
    /\ hIn' = [session_id |-> sid, query |-> q]
    /\ hOut' = get_context_for_followup(sessions, sid, clock, q)
    /\ UNCHANGED <<aVars, clock, turns, last, idled, semantic_mapping, mVars, bVars,
                   sVars, tVars>>

\* time.time() moves on while no call is made
Idle ==
  /\ ~idled
  /\ \E period \in IdlePeriods : clock' = clock + period
  /\ idled' = TRUE
  /\ UNCHANGED <<aVars, sessions, turns, last, hCall, hIn, hOut, arrivals,
                 semantic_mapping, mVars, bVars, sVars, tVars>>

\* time.time() moves on a little after the first interaction was saved
Pause ==
  /\ clock = 0
  /\ turns = 1
  /\ clock' = clock + ShortPause
  /\ UNCHANGED <<aVars, sessions, turns, last, hCall, hIn, hOut, arrivals, idled,
                 semantic_mapping, mVars, bVars, sVars, tVars>>

NextH ==
  \/ CallSaveInteraction
  \/ CallGetContextForFollowup
  \/ Idle
  \/ Pause

SpecSession == InitH /\ [][NextH]_vars

(***************************************************************************)
(* agents/story_agent.py and the narratives of                             *)
(* build_and_execute_with_narrative.  A row keeps the fields the           *)
(* narratives quote: order_id, the 'Detail Keluhan' line of the            *)
(* description ("N/A" when it has none) and total_count.  The answer of    *)
(* the text improvement service is its kind and, for a 200 answer, the     *)
(* stripped non-empty lines of its text.                                   *)
(***************************************************************************)
ImprovementAnswer(kind, lines) == [kind |-> kind, lines |-> lines]

\* no call of the text improvement service
NoImprovement == ImprovementAnswer("none", <<>>)

\* the words of a line _improve_keluhan_with_llm passes over
skip_words ==
  {"perbaikan:", "contoh:", "aturan:", "input:", "output:", "berikut"}

\* str.strip('"')
RECURSIVE StripQuotes(_)
StripQuotes(s) ==
  IF s # "" /\ Ch(s, 1) = "\""
  THEN StripQuotes(DropFirst(s, 1))
  ELSE IF s # "" /\ Ch(s, Len(s)) = "\""
  THEN StripQuotes(Sub(s, 1, Len(s) - 1))
  ELSE s

\* the lines of an answer _improve_keluhan_with_llm would return
clean_lines(lines) ==
  { i \in DOMAIN lines :
      /\ ~ContainsAny(Lower(lines[i]), skip_words)
      /\ Len(lines[i]) > 10
      /\ ~StartsWith(lines[i], "*") }

\* StoryAgentSummary._improve_keluhan_with_llm
improve_keluhan_with_llm(raw_keluhan, llm) ==
  IF llm.kind = "ok"
  THEN IF clean_lines(llm.lines) # {}
       THEN StripQuotes(llm.lines[CHOOSE i \in clean_lines(llm.lines) :
                                    \A j \in clean_lines(llm.lines) : j <= i])
       ELSE IF llm.lines # <<>> THEN llm.lines[1] ELSE raw_keluhan
  ELSE Replace(Replace(raw_keluhan, "ket ", "keterangan "), " ga ", " tidak ")

\* StoryAgentSummary._extract_and_improve_keluhan
extract_and_improve_keluhan(row, llm) ==
  IF row.keluhan # "N/A" THEN improve_keluhan_with_llm(row.keluhan, llm)
  ELSE "N/A"

\* StoryAgentSummary.generate_detail_narrative: the ticket and its
\* complaint (the other fields are copied from the row as they are)
generate_detail_narrative(row, llm) ==
  "No. Ticket : " \o row.order_id \o "; Detail Keluhan : "
    \o extract_and_improve_keluhan(row, llm)

\* SmartQueryBuilder._extract_location_simple
extract_location_simple(entities) ==
  LET geo == SelectSeq(entities, LAMBDA e : e.entity_type = "geographic")
  IN  IF geo # <<>> THEN geo[1].value ELSE "lokasi yang diminta"

\* the order_ids of the first five rows, as _format_complaint_example
\* numbers them
RECURSIVE complaint_examples(_, _)
complaint_examples(data, index) ==
  IF data = <<>> \/ index > 5 THEN <<>>
  ELSE <<IntToStr(index) \o ". " \o data[1].order_id>>
         \o complaint_examples(Tail(data), index + 1)

\* build_and_execute_with_narrative, step 5: the narrative of a result
\* by its intent, from its rows and entities and, for a detail, from the
\* answer of the text improvement service
narrative_text(intent, data, entities, llm) ==
  IF intent = "summary"
  THEN IF data = <<>> THEN "Tidak ada data keluhan ditemukan"
       ELSE "Ringkasan keluhan di " \o extract_location_simple(entities)
              \o ": " \o IntToStr(Len(data)) \o " kategori"
  ELSE IF intent = "detail"
  THEN IF data = <<>> THEN "Data tidak ditemukan untuk detail yang diminta."
       ELSE generate_detail_narrative(data[1], llm)
  ELSE IF intent = "count"
  THEN "Ditemukan " \o (IF data = <<>> THEN "0" ELSE data[1].total_count)
         \o " keluhan di " \o extract_location_simple(entities)
  ELSE IF intent = "list"
  THEN IF data = <<>>
       THEN "Tidak ada keluhan ditemukan di " \o extract_location_simple(entities)
       ELSE "Contoh Keluhan di " \o extract_location_simple(entities) \o ": "
              \o Join("; ", complaint_examples(data, 1))
  ELSE "Ditemukan " \o IntToStr(Len(data)) \o " record untuk query Anda."

(***************************************************************************)
(* The API client on its own: calls of query_user_history on one client,   *)
(* each some time after the one before, against a server and a network     *)
(* that answer each request in any of their ways.                          *)
(***************************************************************************)
\* the seconds from the start of one call to the start of the next
ApiGaps ==
  {BriefGap, token_lifetime - token_refresh_margin - 1,
   token_lifetime - token_refresh_margin}

InitA ==
  /\ IdleA
  /\ semantic_mapping = EmptyMapping
  /\ IdleS
  /\ IdleT
  /\ IdleH
  /\ IdleM
  /\ IdleB
  /\ IdleC

CallQueryUserHistory ==
  /\ aOut.calls < MaxApiCalls
  /\ \E gap \in ApiGaps :
       \E script \in ApiScripts(client, aOut.at + gap) :
         LET out == query_user_history(client, aOut.at + gap, script)
         IN  /\ aCall' = "query_user_history"
             /\ client' = out.client
             /\ aOut' = [before |-> client, at |-> aOut.at + gap,
                         script |-> script, result |-> out.result,
                         requests |-> out.requests, attempts |-> out.attempts,
                         calls |-> aOut.calls + 1]
  /\ UNCHANGED <<pending, waited, narratives, semantic_mapping, mVars, bVars, sVars, cVars,
                 tVars, hVars>>

NextA ==
  \/ CallQueryUserHistory

SpecApi == InitA /\ [][NextA]_vars

(***************************************************************************)
(* The external calls of one query after another, second by second.  The   *)
(* collaborator may answer a request at any time, or never; time passes,   *)
(* and requests raises Timeout when the timeout of a post has passed.      *)
(***************************************************************************)
Submit ==
  /\ pending.call = NONE
  /\ \E query \in PipelineQueries : pending' = first_call(query)
  /\ waited' = 0
  /\ UNCHANGED <<client, aCall, aOut, narratives, semantic_mapping, mVars, bVars, sVars,
                 cVars, tVars, hVars>>

Answer ==
  /\ pending.call # NONE
  /\ pending' = after_answer(pending)
  /\ waited' = 0
  /\ UNCHANGED <<client, aCall, aOut, narratives, semantic_mapping, mVars, bVars, sVars,
                 cVars, tVars, hVars>>

\* a second passes; past MaxWait seconds the wait is no longer counted
Tick ==
  /\ pending.call # NONE
  /\ timeout_of(pending.call) = NoTimeout \/ waited < timeout_of(pending.call)
  /\ waited' = IF waited < MaxWait THEN waited + 1 ELSE waited
  /\ UNCHANGED <<pending, client, aCall, aOut, narratives, semantic_mapping, mVars, bVars,
                 sVars, cVars, tVars, hVars>>

TimeOut ==
  /\ pending.call # NONE
  /\ timeout_of(pending.call) # NoTimeout
  /\ waited >= timeout_of(pending.call)
  /\ pending' = after_timeout(pending)
  /\ waited' = 0
  /\ UNCHANGED <<client, aCall, aOut, narratives, semantic_mapping, mVars, bVars, sVars,
                 cVars, tVars, hVars>>

NextW ==
  \/ Submit
  \/ Answer
  \/ Tick
  \/ TimeOut

\* time passes and a due timeout is raised; nothing makes a collaborator
\* answer
SpecCalls ==
  /\ InitA
  /\ [][NextW]_vars
  /\ WF_vars(Tick)
  /\ WF_vars(TimeOut)

(***************************************************************************)
(* Properties of the validator.                                            *)
(***************************************************************************)

\* the spellings of the subscriber number with operator prefix c and
\* further digits t: 62 8xx..., 0 8xx..., 8xx..., each with or without +
Spellings(c, t) ==
  { plus \o f \o c \o t : plus \in {"", "+"}, f \in {"62", "0", ""} }

\* the tails that give a canonical value of 12 to 15 digits
ValidTails == { t \in Tails : Len(t) >= 7 /\ Len(t) <= 10 }

\* C3: every accepted spelling of a subscriber number (628..., 08..., 8...,
\* with or without +) is normalised by _normalize_msisdn, and extracted by
\* extract_msisdn from a query that contains it, to 628 followed by the
\* subscriber digits (08111992172 gives 628111992172)
C3_SpellingsNormaliseToCanonical ==
  \A c \in valid_prefixes, t \in ValidTails :
    (mIn \in Spellings(c, t) /\ mCall \in {"normalize", "extract"})
      => mRet = "62" \o c \o t

\* C4: normalising the result of _normalize_msisdn again gives the same
\* string
C4_NormalizeIdempotent ==
  mCall = "renormalize" => mRet = mPrev

\* C4 witness: an accepted input that is not its own normal form was
\* normalised twice
C4_Witness ==
  /\ mCall = "renormalize"
  /\ mIn = "08111992172"
  /\ mPrev # mIn
  /\ mRet # NONE

\* C5: is_telkomsel_number is true for 628 + Telkomsel prefix + 8 or 9
\* digits, false for a valid number of another carrier and false for an
\* input that fails validation
C5_IsTelkomsel ==
  mCall = "is_telkomsel" =>
    /\ (\E c \in TelkomselPrefixes, t \in Tails :
          Len(t) \in {8, 9} /\ mIn = "628" \o c \o t) => mFlag
    /\ (mValidation.valid /\ Sub(mValidation.normalized, 4, 6) \in
          IndosatPrefixes \cup XLPrefixes \cup AxisPrefixes \cup ThreePrefixes)
         => ~mFlag
    /\ ~mValidation.valid => ~mFlag

\* C5 witness: 628 + 811 + 8 digits was found to be a Telkomsel number
C5_Witness ==
  /\ mCall = "is_telkomsel"
  /\ mIn = "62881119921723"
  /\ mFlag

\* C6: for a normalised number the API form is the number without its 62
\* country code, and normalize_for_api and _convert_to_api_format agree on it
C6_ApiFormConversionsAgree ==
  mCall = "api_format" =>
    /\ mRet = DropFirst(mValidation.normalized, 2)
    /\ mPrev = mRet

(***************************************************************************)
(* Properties of the query builder and the database workflows              *)
(***************************************************************************)
\* the five location-bearing fields: province, city, district,
\* sub-district, region
LocationFields ==
  {"provinsi_create_ticket", "kabupaten_kota_create_ticket",
   "kecamatan_create_ticket", "desa_kelurahan_create_ticket",
   "customer_region_create_ticket"}

\* the geographic category holds exactly one entity per location field,
\* each with the given value
HoldsForEveryLocationField(geographic, value) ==
  /\ Len(geographic) = Cardinality(LocationFields)
  /\ \A f \in LocationFields :
       \E i \in 1..Len(geographic) : geographic[i].field = f
  /\ \A i \in 1..Len(geographic) :
       geographic[i].value = value /\ geographic[i].search_type = "contains"

\* extract_all_entities was given a context that inherits a location
InheritsLocation ==
  /\ bCall = "extract_all_entities"
  /\ bIn.enhanced_context # NoContext
  /\ bIn.enhanced_context.inherit_location
  /\ bIn.enhanced_context.location # ""

\* C8, as stated: with inherit_location = true and a non-empty location the
\* geographic category holds that value for every location-bearing field,
\* and nothing derived from an alias in the query text
C8_InheritedLocationFillsEveryField ==
  InheritsLocation =>
    HoldsForEveryLocationField(DictGet(bOut.entities, "geographic", <<>>),
                               bIn.enhanced_context.location)

\* C8: with inherit_location = true and a non-empty location, the geographic
\* category is the context's already-resolved geographic entities when it
\* supplies any, and otherwise holds the location for every location-bearing
\* field; in both cases no entity derived from an alias in the query text
\* appears
C8_InheritedLocationUnlessResolved ==
  InheritsLocation =>
    LET geographic == DictGet(bOut.entities, "geographic", <<>>)
        ec == bIn.enhanced_context
    IN  IF ec.complete_geo_entities # <<>>
        THEN geographic = ec.complete_geo_entities
        ELSE HoldsForEveryLocationField(geographic, ec.location)

\* C8 witness: a query that names Jakarta was extracted with an inherited
\* location Bandung and no resolved entities, under a mapping that has
\* geographic fields
C8_Witness ==
  /\ InheritsLocation
  /\ bIn.query = "berapa keluhan di jakarta minggu ini"
  /\ semantic_mapping = SampleMapping
  /\ bIn.enhanced_context.complete_geo_entities = <<>>
  /\ bIn.enhanced_context.location = "Bandung"
  /\ DictGet(bOut.entities, "geographic", <<>>) # <<>>

\* str.count(p)
Occurrences(s, p) ==
  Cardinality({ i \in 1..(Len(s) - Len(p) + 1) : Sub(s, i, i + Len(p) - 1) = p })

\* s.split(sep, 1)[1]
AfterFirst(s, sep) ==
  LET hits == { i \in 1..(Len(s) - Len(sep) + 1) :
                  Sub(s, i, i + Len(sep) - 1) = sep }
  IN  IF hits = {} THEN NONE
      ELSE DropFirst(s, (CHOOSE k \in hits : \A m \in hits : k <= m) + Len(sep) - 1)

\* what each category that is not the context contributes: the
\* parenthesised OR of its conditions for geographic and detail, the AND of
\* its conditions for the others
CategoryGroups(entities) ==
  LET present == SelectSeq(entities,
                   LAMBDA kv : kv[1] # "context" /\ category_conditions(kv[2]) # <<>>)
  IN  [i \in 1..Len(present) |->
         IF present[i][1] \in {"geographic", "detail"}
         THEN "(" \o Join(" OR ", category_conditions(present[i][2])) \o ")"
         ELSE Join(" AND ", category_conditions(present[i][2]))]

\* a count statement was built, and from which entities
CountSqlBuilt ==
  \/ bCall = "build_sql" /\ bIn.intent = "count"
  \/ bCall \in {"analyze_and_build_query", "build_and_execute"} /\ bOut.intent = "count"

SqlEntities == IF bCall = "build_sql" THEN bIn.entities ELSE bOut.entities

\* C9: for intent count build_sql returns a string that contains count( and
\* exactly one WHERE, followed by the AND over the categories present other
\* than the context (1=1 when there is none), geographic and detail each as
\* one parenthesised OR; no context entity appears in the statement
C9_CountSqlShape ==
  CountSqlBuilt =>
    LET groups == CategoryGroups(SqlEntities)
        context == DictGet(SqlEntities, "context", <<>>)
    IN  /\ bOut.sql # NONE
        /\ Contains(bOut.sql, "count(")
        /\ Occurrences(bOut.sql, "WHERE") = 1
        /\ AfterFirst(bOut.sql, " WHERE ") =
             (IF groups = <<>> THEN "1=1" ELSE Join(" AND ", groups))
        /\ \A i \in 1..Len(context) : ~Contains(bOut.sql, context[i].field)

\* C9 witness: a count statement was built from geographic, temporal, status
\* and context entities
C9_Witness ==
  /\ bCall = "build_sql"
  /\ bIn.intent = "count"
  /\ DictHas(bIn.entities, "context")
  /\ Len(DictGet(bIn.entities, "geographic", <<>>)) > 1
  /\ DictHas(bIn.entities, "temporal")
  /\ Contains(bOut.sql, " OR ")
  /\ Contains(bOut.sql, " AND ")

\* the intents build_sql has a statement for
SqlIntents == {"count", "list", "detail", "summary"}

Workflows ==
  {"summary_workflow", "detail_workflow", "followup_workflow", "route_workflow"}

\* C10: for an intent outside count, list, detail and summary build_sql
\* returns null, build_and_execute reports a failure without an execution
\* result and without a database query, and every workflow answers with an
\* error response
C10_UnknownIntentFails ==
  /\ (bCall = "build_sql" /\ bIn.intent \notin SqlIntents) => bOut.sql = NONE
  /\ (bCall = "build_and_execute" /\ bOut.intent \notin SqlIntents) =>
       /\ bOut.sql = NONE
       /\ ~bOut.result.success
       /\ ~bOut.result.has_execution_result
       /\ ~bOut.result.db_executed
       /\ bIn.db = NONE
  /\ (bCall \in Workflows
        /\ detect_intent(semantic_mapping, bIn.query) \notin SqlIntents) =>
       /\ bOut.response.status = "error"
       /\ ~bOut.response.db_executed
       /\ bIn.db = NONE

\* C10 witness: the follow-up workflow answered a query whose intent, trend,
\* has no statement
C10_Witness ==
  /\ bCall = "followup_workflow"
  /\ detect_intent(semantic_mapping, bIn.query) = "trend"
  /\ bIn.enhanced_context # NoContext
  /\ bOut.response.status = "error"

LookupFailed ==
  /\ sCall = "execute"
  /\ \/ sOut.run[3] = "exception"
     \/ /\ sOut.run[3] = "none"
        /\ ~query_user_history(NoClient, SecondOfDay(sIn.now), sOut.run[1]).result.success

\* the error of the failed lookup: str(api_error), or the record's error
OriginalError ==
  IF sOut.run[3] = "exception" THEN ClientRaised
  ELSE query_user_history(NoClient, SecondOfDay(sIn.now), sOut.run[1]).result.error

\* C22: when the lookup of an executed query fails (the client raises, a
\* request times out, the answer is not 200, the record has success =
\* false) the answer is the maintenance response: status api_maintenance,
\* error type api_unavailable, the fixed maintenance text for the number,
\* and the error only in the metadata's error_details, not in the text
C22_LookupFailureIsMaintenance ==
  LookupFailed =>
    /\ sOut.response.status = "api_maintenance"
    /\ sOut.response.error_type = "api_unavailable"
    /\ sOut.response.response
         = create_maintenance_response(sOut.parsed.msisdn, NONE).response
    /\ Contains(sOut.response.response, "Sedang Maintenance")
    /\ ~Contains(sOut.response.response, OriginalError)
    /\ sOut.metadata.error_details = OriginalError
    /\ sOut.response.api_calls # <<>>

\* a lookup that timed out on both attempts, answered with the maintenance
\* response
C22_Witness ==
  /\ LookupFailed
  /\ sOut.run[1][2] = "timeout"
  /\ sOut.run[1][4] = "timeout"
  /\ sOut.lookup.error = "API request timeout"
  /\ sOut.response.status = "api_maintenance"
  /\ sOut.metadata.error_details = "API request timeout"

(***************************************************************************)
(* Properties of _classify_query                                           *)
(***************************************************************************)
\* the query was classified while the session held earlier turns
ClassifiedWithHistory ==
  /\ turns = 1
  /\ sessions[last.session_id].conversation_history # <<>>

KnownLabels == {"COMPLAINT", "KNOWLEDGE_QUERY", "SYSTEM_INQUIRY", "SMARTCARE"}

\* no decision tier has anything to go by: no marker, no MSISDN, no keyword
\* of the hard rules or of the fallback, no follow-up, and a reasoner that
\* fails or names no known label
NoSignal ==
  /\ ~ContainsAny(last.query, system_prompt_markers)
  /\ ~msisdn_pattern_search(last.query)
  /\ extract_msisdn(last.query) = NONE
  /\ ~ContainsAny(Lower(last.query),
                  classify_knowledge_keywords \cup fallback_knowledge_keywords
                    \cup system_keywords \cup complaint_keywords)
  /\ ~last.context.is_followup
  /\ \/ last.llm.kind # "ok"
     \/ SearchLabel(Upper(Strip(last.llm.text)), "CLASSIFICATION:", WordChars)
          \notin KnownLabels

\* C7: for every query, session and answer of the reasoners _classify_query
\* returns a classification whose intent category is one of the seven, and
\* off_topic when no tier has a signal
C7_CategoryInFixedSet ==
  turns = 1 =>
    /\ last.classification.intent_category \in IntentCategories
    /\ NoSignal => last.classification.intent_category = "off_topic"

\* C7 witness: the reasoner answered a query with a label the code does not
\* know, and the query was classified off_topic
C7_Witness ==
  /\ turns = 1
  /\ last.query = "halo"
  /\ last.llm = LLMAnswer("ok", "CLASSIFICATION: BANANA\nCONFIDENCE: 0.5")
  /\ NoSignal
  /\ last.classification.intent_category = "off_topic"

(***************************************************************************)
(* Properties of the session manager                                       *)
(***************************************************************************)
\* the interactions of a session that arrived and were not lost to expiry
Arrived(sid) == arrivals[sid]

\* the query holds one of the trigger phrases of a follow-up
HasTrigger(query) ==
  \E phrase \in followup_patterns : Contains(Lower(query), phrase)

\* C11: get_context_for_followup reports is_followup = true exactly when the
\* lower-cased query contains a trigger phrase and the session, as the call
\* finds it, holds a saved interaction; the previous query, response, type
\* and entities it returns are those of the interaction of that session
\* saved last
C11_FollowupContext ==
  hCall = "get_context_for_followup" =>
    LET saved == Arrived(hIn.session_id)
    IN  /\ hOut.is_followup = (HasTrigger(hIn.query) /\ saved # <<>>)
        /\ hOut.is_followup =>
             /\ hOut.previous_query = saved[Len(saved)].query
             /\ hOut.previous_response = saved[Len(saved)].response
             /\ hOut.previous_query_type = saved[Len(saved)].query_type
             /\ hOut.previous_entities = saved[Len(saved)].entities
        /\ ~hOut.is_followup => hOut = NoFollowup

\* C11 witness: a follow-up was recognised in a conversation with three
\* saved interactions while the other conversation holds another kind of
\* turn, and the third answer is the one returned
C11_Witness ==
  /\ hCall = "get_context_for_followup"
  /\ hIn = [session_id |-> "s1", query |-> "Yang Mana?"]
  /\ Len(Arrived("s1")) = 3
  /\ Arrived("s2") # <<>>
  /\ hOut.is_followup
  /\ hOut.previous_response = "3"
  /\ hOut.previous_query_type = "count"

\* C15: as long as a session does not expire, its conversation_history is
\* the most recent min(n, 10) of the n interactions saved to it, in arrival
\* order: it never holds more than 10, and the oldest is the one that goes
C15_HistoryIsLastTen ==
  \A sid \in DOMAIN arrivals :
    LET history == IF sessions[sid] = NoSession THEN <<>>
                   ELSE sessions[sid].conversation_history
        n == Len(Arrived(sid))
    IN  /\ Len(history) <= 10
        /\ Len(history) = (IF n <= 10 THEN n ELSE 10)
        /\ history = SubSeq(Arrived(sid), n - Len(history) + 1, n)

\* C15 witness: the eleventh interaction of a conversation was saved, the
\* history holds ten and starts with the second
C15_Witness ==
  /\ hCall = "save_interaction"
  /\ Len(Arrived("s1")) = 11
  /\ Len(sessions["s1"].conversation_history) = 10
  /\ sessions["s1"].conversation_history[1].response = "2"
  /\ sessions["s1"].conversation_history[10].response = "11"

\* the last interaction saved to a session is older than max_session_age
\* at current_time
LastSavedTooOld(session, current_time) ==
  LET history == session.conversation_history
  IN  current_time - history[Len(history)].timestamp > max_session_age

\* a step that calls the session manager for session_id: what it does to
\* the session sid that holds saved interactions
AccessKeepsTheYoung(sid) ==
  LET session == sessions[sid]
      history == session.conversation_history
      after == sessions'[sid]
      called == hIn'.session_id = sid
  IN  IF LastSavedTooOld(session, clock)
      THEN /\ ~called => after = NoSession
           /\ called =>
                /\ after # NoSession
                /\ \A i \in DOMAIN after.conversation_history :
                     after.conversation_history[i].timestamp = clock
                /\ hCall' = "get_context_for_followup" =>
                     /\ after.conversation_history = <<>>
                     /\ ~hOut'.is_followup
      ELSE /\ after # NoSession
           /\ (~called \/ hCall' = "get_context_for_followup") => after = session
           /\ (called /\ hCall' = "save_interaction") =>
                /\ Len(after.conversation_history) >= 2
                /\ after.conversation_history[Len(after.conversation_history) - 1]
                     = history[Len(history)]

\* C27: a call of the session manager removes every session whose last
\* saved interaction is more than max_session_age old, the session the call
\* names starts again with an empty history and the query is no follow-up
\* of a turn saved before; a session whose last saved interaction is not
\* older than that is kept whole, whichever session the call names
C27_ExpiryOnAccess ==
  [][ clock' = clock =>
        \A sid \in Conversations :
          (sessions[sid] # NoSession /\ sessions[sid].conversation_history # <<>>) =>
            AccessKeepsTheYoung(sid) ]_vars

\* C27 witness: the first conversation saved a turn, the second one a
\* pause later; max_session_age after that a follow-up question of the
\* first found no history while the second kept its turn
C27_Witness ==
  /\ hCall = "get_context_for_followup"
  /\ hIn = [session_id |-> "s1", query |-> "berikan contohnya"]
  /\ turns = 2
  /\ clock = ShortPause + max_session_age
  /\ sessions["s1"] = create_new_session(clock)
  /\ Len(sessions["s2"].conversation_history) = 1
  /\ sessions["s2"].conversation_history[1].timestamp = ShortPause
  /\ ~hOut.is_followup

\* C28, as stated: the entities extract_all_entities returns hold a status
\* entity only when the enhanced context brings filter text, and whenever
\* that text contains 'belum solve' or 'pending' they hold exactly one
\* status entity, business_status = BusinessStatusInProgress, matched
\* exactly
C28_StatusFromFilterText ==
  bCall = "extract_all_entities" =>
    LET ec == bIn.enhanced_context
        status == DictGet(bOut.entities, "status", <<>>)
    IN  /\ status # <<>> => (ec # NoContext /\ ec.filters # "")
        /\ ( /\ ec # NoContext
             /\ (Contains(ec.filters, "belum solve") \/ Contains(ec.filters, "pending")) ) =>
             status = << Entity("business_status", "BusinessStatusInProgress",
                                "exact_match", NONE, NONE) >>

\* the part of C28 the code keeps: the filter texts with 'status_pending'
\* or 'belum solve' give the status entity, every other text gives none
C28_StatusFromFilterTokens ==
  bCall = "extract_all_entities" =>
    LET ec == bIn.enhanced_context
        status == DictGet(bOut.entities, "status", <<>>)
    IN  IF /\ ec # NoContext
           /\ (Contains(ec.filters, "belum solve") \/ Contains(ec.filters, "status_pending"))
        THEN status = << Entity("business_status", "BusinessStatusInProgress",
                                "exact_match", NONE, NONE) >>
        ELSE status = <<>>

(***************************************************************************)
(* Properties of the time parser                                           *)
(***************************************************************************)
\* the texts "N jam lalu" and the N of such a text
HoursAgoTexts == { n \o " jam lalu" : n \in HourCounts }

CountOf(text) == CHOOSE n \in HourCounts : text = n \o " jam lalu"

\* C17, as stated: for a text "N jam lalu" resolved at now the parser
\* answers with success = true, start = minute 0 and end = minute 59 of the
\* clock hour N hours before now
C17_HoursAgoIsClockHour ==
  (tCall = "parse_time_expression" /\ tIn.text \in HoursAgoTexts) =>
    /\ ~tOut.parsed.raises
    /\ tOut.parsed.success
    /\ LET target == tIn.now - CappedInt(CountOf(tIn.text)) * 60
           hour == target - (target % 60)
       IN  /\ Strptime(tOut.parsed.startTime) = hour
           /\ Strptime(tOut.parsed.endTime) = hour + 59

\* the texts "jam N" with 0 <= N <= 23 and the N of such a text
HourOfDayTexts == { "jam " \o IntToStr(h) : h \in HoursOfDay }

HourOf(text) == CHOOSE h \in HoursOfDay : text = "jam " \o IntToStr(h)

\* C18, as stated: for a text "jam N" with 0 <= N <= 23 the window is the
\* hour centred on N of the current day, from N-1:30 to N:30
C18_HourOfDayIsCentred ==
  (tCall = "parse_time_expression" /\ tIn.text \in HourOfDayTexts) =>
    /\ tOut.parsed.success
    /\ LET centre == DayOf(tIn.now) * MinutesPerDay + HourOf(tIn.text) * 60
       IN  /\ Strptime(tOut.parsed.startTime) = centre - 30
           /\ Strptime(tOut.parsed.endTime) = centre + 30

\* the end lies more than 30 days before the reading of the clock
TooOld(end_at, now, frac) ==
  \/ end_at < now - 30 * MinutesPerDay
  \/ frac /\ end_at = now - 30 * MinutesPerDay

\* C19: validate_time_range rejects every pair with start >= end, whatever
\* else holds of it, rejects a start more than a day after now and an end
\* more than 30 days before now, each with a reason string of its own, and
\* accepts every other pair of well-formed instants
C19_TimeRangeRejections ==
  (tCall = "validate_time_range" /\ tIn.start_at # NoInstant) =>
    LET answer == tOut.validation
        unordered == tIn.start_at >= tIn.end_at
        future == tIn.start_at > tIn.now + MinutesPerDay
        old == TooOld(tIn.end_at, tIn.now, tIn.frac)
    IN  /\ unordered =>
             answer = [valid |-> FALSE, error |-> "Start time must be before end time"]
        /\ (future /\ ~unordered) =>
             answer = [valid |-> FALSE, error |-> "Time range cannot be in the future"]
        /\ (old /\ ~unordered) =>
             answer = [valid |-> FALSE,
                       error |-> "Time range is too old (max 30 days ago)"]
        /\ answer.valid = (~unordered /\ ~future /\ ~old)
        /\ answer.valid => answer.error = NONE

\* C19 witness: a pair whose start is after its end and more than a day
\* after now was rejected for the order of its ends
C19_Witness ==
  /\ tCall = "validate_time_range"
  /\ tIn.start_at = tIn.now + 2 * MinutesPerDay
  /\ tIn.end_at = tIn.now - 31 * MinutesPerDay
  /\ tOut.validation.error = "Start time must be before end time"

\* a text whose first match has a value out of range, with the text that is
\* left of it when the match is taken away
FallThroughTexts ==
  { <<"jam 25", "halo">>, <<"jam 25 kemarin", "kemarin">>,
    <<"kemarin jam 25", "kemarin">>, <<"25:00 kemarin", "kemarin">>,
    <<"10:75 hari ini", "hari ini">>, <<"jam 24 10:30", "10:30">>,
    <<"32/13/2025", "halo">>, <<"31/02/2025 halo", "halo">>,
    <<"999999999 jam lalu kemarin", "kemarin">>,
    <<"99999999999 menit lalu jam 10", "jam 10">>,
    <<"99999999999 hari lalu pagi ini", "pagi ini">> }

\* C26, as stated: a text that matches two patterns gets the window of the
\* one that comes first in the order hours-ago, minutes-ago, 'jam N', H:MM,
\* today, yesterday, days-ago, day-parts, explicit date, whichever stands
\* first in the text; a text whose match has a value out of range is
\* resolved as the text without the match; and the date reasoner is asked
\* only for a text none of the patterns gave a window for
C26_FirstPatternDecides ==
  tCall = "parse_time_expression" =>
    /\ \A i \in DOMAIN PatternTexts, j \in DOMAIN PatternTexts :
         ( /\ i < j
           /\ tIn.text \in { PatternTexts[i] \o " " \o PatternTexts[j],
                             PatternTexts[j] \o " " \o PatternTexts[i] } ) =>
           /\ tOut.parsed = parse_time_expression(PatternTexts[i], tIn.now, NoAnswer)
           /\ tOut.parsed.success
    /\ \A pair \in FallThroughTexts :
         tIn.text = pair[1] =>
           tOut.parsed = parse_time_expression(pair[2], tIn.now, tIn.llm)
    /\ tIn.llm # NoAnswer =>
         tOut.parsed = time_expression_result(extract_date_with_llm(tIn.llm), tIn.now)

\* the part of C26 about texts whose values are all in range
C26_FirstPatternDecidesInRange ==
  (tCall = "parse_time_expression" /\ ~tOut.parsed.raises) => C26_FirstPatternDecides

(***************************************************************************)
(* Properties of execute_query                                            *)
(***************************************************************************)

\* the interaction a turn found last in the history of its session
PriorTurn == last.found[Len(last.found)]

\* the value of the first entity a saved turn holds in a category
FirstSaved(interaction, category) ==
  IF DictGet(interaction.entities, category, <<>>) = <<>> THEN ""
  ELSE DictGet(interaction.entities, category, <<>>)[1].value

\* the follow-up reasoner did not answer: an exception or a status that is
\* not 200
ReasonerDown(answer) == answer.kind \in {"exception", "status"}

\* C12: when a follow-up is detected and the follow-up reasoner is
\* unavailable, the turn is classified followup_enhanced and its enhanced
\* context has intent list, inherits location and time, carries the value of
\* the first geographic and of the first temporal entity of the last saved
\* turn, and has no filter.
C12_FallbackFollowupContext ==
  (turns = 1 /\ last.context.is_followup /\ ReasonerDown(last.fu)) =>
    /\ last.found # <<>>
    /\ last.classification.intent_category = "followup_enhanced"
    /\ last.classification.enhanced_context.intent = "list"
    /\ last.classification.enhanced_context.inherit_location
    /\ last.classification.enhanced_context.inherit_time
    /\ last.classification.enhanced_context.location = FirstSaved(PriorTurn, "geographic")
    /\ last.classification.enhanced_context.timeframe = FirstSaved(PriorTurn, "temporal")
    /\ last.classification.enhanced_context.filters = ""

\* 'berikan contohnya' after a summary for Bandung this month, the reasoner
\* down: both are inherited and the turn runs the follow-up workflow as a list
C12_Witness ==
  /\ turns = 1
  /\ last.query = "berikan contohnya"
  /\ last.fu.kind = "exception"
  /\ last.context.is_followup
  /\ last.context.previous_query = SummaryQuery
  /\ last.classification.enhanced_context.intent = "list"
  /\ last.classification.enhanced_context.location # ""
  /\ last.classification.enhanced_context.timeframe # ""
  /\ last.workflow = "followup"

\* the category of the entity set a workflow answered with
TurnEntities(category) == DictGet(last.result.entities, category, <<>>)

\* the category of the entity set of the query text on its own
FromText(category) ==
  DictGet(extract_all_entities(semantic_mapping, last.query, <<>>, NoContext),
          category, <<>>)

\* a follow-up turn whose workflow answered with its entity set
FollowupAnswered ==
  /\ turns = 1
  /\ last.classification.intent_category = "followup_enhanced"
  /\ last.workflow = "followup"
  /\ last.result.status = "success"

\* C13: in a follow-up turn whose decision has inherit_location false the
\* enhanced context has an empty location and the geographic entities the
\* turn works with are those of the query text alone; likewise for
\* inherit_time, the timeframe and the temporal entities.
C13_InheritsOnlyWhenFlagged ==
  FollowupAnswered =>
    /\ ~last.classification.enhanced_context.inherit_location =>
         /\ last.classification.enhanced_context.location = ""
         /\ TurnEntities("geographic") = FromText("geographic")
    /\ ~last.classification.enhanced_context.inherit_time =>
         /\ last.classification.enhanced_context.timeframe = ""
         /\ TurnEntities("temporal") = FromText("temporal")

\* the queries that consist of a ticket id
TicketIdQueries == {"CC-20250603-00000475", "cc-20250603-00000475"}

\* the SQL the builder writes for the query of the turn
TurnSql ==
  build_and_execute(semantic_mapping, last.query, NoContext, NONE).sql_query

\* C14: a query that consists of a ticket id CC-<8 digits>-<8 digits> is
\* routed to the detail workflow on every classification path, its entity
\* set holds a detail entity of type ticket_id with the upper-cased id, and
\* its SQL has the detail shape.
C14_TicketIdIsDetail ==
  (turns = 1 /\ last.query \in TicketIdQueries /\ last.fault = "none") =>
    /\ last.workflow = "detail"
    /\ last.result.status = "success" =>
         \E i \in 1..Len(TurnEntities("detail")) :
           /\ TurnEntities("detail")[i].entity_type = "ticket_id"
           /\ TurnEntities("detail")[i].value = "CC-20250603-00000475"
    /\ Contains(TurnSql, "ORDER BY create_time DESC")
    /\ Contains(TurnSql, "LIMIT 1")
    /\ ~Contains(TurnSql, "LIMIT 10")

\* the history of the session of the turn
TurnHistory == sessions[last.session_id].conversation_history

\* the last history_limit interactions of a history
LastOnes(history) ==
  IF Len(history) > history_limit
  THEN SubSeq(history, Len(history) - history_limit + 1, Len(history))
  ELSE history

\* C16: after every query processed by execute_query, whatever branch was
\* taken and whether the workflow succeeded or failed, the history of the
\* session has gained exactly one interaction, which records the turn.
C16_EveryTurnIsRecorded ==
  turns = 1 =>
    /\ TurnHistory # <<>>
    /\ TurnHistory[Len(TurnHistory)].timestamp = clock
    /\ TurnHistory[Len(TurnHistory)].query = last.query
    /\ TurnHistory[Len(TurnHistory)].response = last.answer.response
    /\ TurnHistory =
         LastOnes(Append(last.found, TurnHistory[Len(TurnHistory)]))

\* the statuses of the responses the except clauses of execute_query build
ErrorStatuses == {"error", "workflow_error", "calculation_error"}

\* an exception reaches execute_query: the query is not a string, or the
\* workflow of the turn raises and no handler below execute_query answers
\* for it (_handle_knowledge_query and the count branch of _route_workflow
\* do)
ReachesExecuteQuery ==
  \/ last.query = NONE
  \/ /\ last.fault \in {"workflow", "zero_division"}
     /\ \/ last.classification.intent_category \in {"followup_enhanced", "smartcare_query"}
        \/ /\ last.classification.intent_category \notin
                {"system_prompt", "knowledge_query", "off_topic", "system_inquiry"}
           /\ analyze_query_type(last.query) # "count"

\* C20: execute_query lets no exception escape: whatever the query and
\* wherever the classification, the workflow, the session store or a
\* collaborator raises, it returns a record with a non-empty response text, a
\* status and a workflow name, and an exception that reaches it yields the
\* workflow name error with the status of an error response.
C20_AlwaysAnswers ==
  turns = 1 =>
    /\ last.returned
    /\ last.answer.response \notin {NONE, ""}
    /\ last.answer.status \notin {NONE, ""}
    /\ last.answer.workflow \notin {NONE, ""}
    /\ ReachesExecuteQuery <=> last.answer.workflow = "error"
    /\ ReachesExecuteQuery => last.answer.status \in ErrorStatuses

\* a follow-up turn whose workflow raised was answered by the outer except
\* clause
C20_Witness ==
  /\ turns = 1
  /\ last.fault = "workflow"
  /\ last.classification.intent_category = "followup_enhanced"
  /\ last.answer = [response |-> "Maaf, terjadi kesalahan dalam memproses query",
                    status |-> "error", workflow |-> "error"]

\* the turn reached the database through the builder
DataTurn == turns = 1 /\ last.fault = "none" /\ last.result.db_executed

\* the intent the turn was routed under: the resolved intent of the
\* enhanced context in a follow-up turn, else the type of the workflow
RoutedIntent ==
  IF last.classification.intent_category = "followup_enhanced"
  THEN last.classification.enhanced_context.intent
  ELSE last.workflow

\* the SQL build_and_execute wrote in the turn
TurnSqlBuilt ==
  build_and_execute(
    semantic_mapping, last.query,
    IF last.classification.intent_category = "followup_enhanced"
    THEN last.classification.enhanced_context ELSE NoContext,
    NONE).sql_query

\* the shape of a statement build_sql writes
SqlShape(sql) ==
  IF sql = NONE THEN NONE
  ELSE IF Contains(sql, "count() AS total_count") THEN "count"
  ELSE IF Contains(sql, "count() AS total_keluhan") THEN "summary"
  ELSE IF Contains(sql, "LIMIT 10") THEN "list"
  ELSE IF Contains(sql, "SELECT * FROM") /\ Contains(sql, "LIMIT 1") THEN "detail"
  ELSE "other"

\* C29, as stated: in every turn that reaches the database the SQL has the
\* shape of the intent the turn was routed under, and detect_intent of the
\* builder gives that same intent for the query
C29_SqlShapeIsRoutedIntent ==
  DataTurn =>
    /\ detect_intent(semantic_mapping, last.query) = RoutedIntent
    /\ SqlShape(TurnSqlBuilt) = RoutedIntent

\* the part of C29 the code keeps: the SQL has the shape of the intent
\* detect_intent gives for the query
C29_SqlShapeIsDetectedIntent ==
  DataTurn => SqlShape(TurnSqlBuilt) = detect_intent(semantic_mapping, last.query)

\* the summary workflow of the turn got rows whose total_keluhan add up to
\* 0, and generate_summary_narrative divided by that total
ZeroTotalTurn ==
  /\ DataTurn
  /\ last.workflow = "summary"
  /\ last.result.response = "Summary workflow execution failed"

\* C21, as stated: a turn whose summary narrative divides by a total of 0
\* is answered with status calculation_error
C21_ZeroTotalIsCalculationError ==
  ZeroTotalTurn => last.answer.status = "calculation_error"

\* what the code does in such a turn: the summary workflow answers with
\* its own error, and the turn is saved as a summary
C21_ZeroTotalIsWorkflowError ==
  ZeroTotalTurn =>
    /\ last.answer.status = "error"
    /\ last.answer.workflow = "summary"
    /\ last.saved

(***************************************************************************)
(* Properties of the decision tiers                                        *)
(***************************************************************************)

\* C25: the tiers of _classify_query are tried in one order and the first
\* that fires decides: system-prompt marker, MSISDN pattern, knowledge
\* keyword, follow-up (a trigger phrase and a session with history), the
\* classification reasoner, the deterministic fallback; the answer of the
\* reasoner counts only when none of the first four fired.
C25_TiersInOrder ==
  turns = 1 /\ last.query # NONE /\ last.fault = "none" =>
    IF ContainsAny(last.query, system_prompt_markers)
    THEN last.classification.intent_category = "system_prompt"
    ELSE IF msisdn_pattern_search(last.query)
    THEN /\ last.classification.intent_category = "smartcare_query"
         /\ last.classification.tier = "msisdn"
    ELSE IF ContainsAny(Lower(last.query), classify_knowledge_keywords)
    THEN /\ last.classification.intent_category = "knowledge_query"
         /\ last.classification.tier = "knowledge"
    ELSE IF HasTrigger(last.query) /\ last.found # <<>>
    THEN /\ last.classification.intent_category = "followup_enhanced"
         /\ last.classification.tier = "followup"
    ELSE IF llm_classify(last.llm) # LLM_RAISES
    THEN last.classification = llm_classify(last.llm)
    ELSE last.classification = fallback_classification(last.query)

\* a query with a knowledge keyword that is a trigger phrase too, in a
\* session with history, with a reasoner that answers otherwise
C25_Witness ==
  /\ turns = 1
  /\ last.query = "bagaimana cara troubleshoot internet"
  /\ HasTrigger(last.query)
  /\ last.found # <<>>
  /\ last.llm.kind = "ok"
  /\ llm_classify(last.llm).intent_category = "off_topic"
  /\ last.classification.intent_category = "knowledge_query"

(***************************************************************************)
(* Properties of the API client                                            *)
(***************************************************************************)
LookupRequests(requests) == SelectSeq(requests, LAMBDA r : r.to = "lookup")

\* the requests of the second attempt: those after the first attempt's
FirstAttemptRequests ==
  first_attempt(aOut.before, aOut.at, aOut.script).requests

SecondAttemptRequests ==
  SubSeq(aOut.requests, Len(FirstAttemptRequests) + 1, Len(aOut.requests))

\* more than token_refresh_margin seconds remain of a token the client holds
CachedTokenIsFresh ==
  /\ aOut.before.access_token # NONE
  /\ aOut.before.token_expires_at # NoExpiry
  /\ aOut.before.token_expires_at - aOut.at > token_refresh_margin

\* C30: query_user_history returns a record with a success flag; it sends
\* at most two lookup requests; it makes a second attempt only after a 401
\* or a timeout in the first; after a 401 the second attempt begins with a
\* token request and its lookup carries the token that request returned,
\* not the one refused; and the first attempt goes without a token request
\* exactly when more than 5 minutes remain of the cached token
C30_QueryUserHistory ==
  aCall = "query_user_history" =>
    /\ aOut.result.success \in BOOLEAN
    /\ aOut.result.success <=> aOut.result.error = NONE
    /\ Len(LookupRequests(aOut.requests)) <= max_retries
    /\ aOut.attempts \in 1..max_retries
    /\ aOut.attempts = 2 =>
         \/ aOut.script[2] = "unauthorized"
         \/ "timeout" \in {aOut.script[1], aOut.script[2]}
    /\ (aOut.attempts = 2 /\ aOut.script[2] = "unauthorized") =>
         /\ client.access_token # aOut.requests[Len(FirstAttemptRequests)].token
               \/ client.access_token = NONE
         /\ SecondAttemptRequests # <<>>
         /\ SecondAttemptRequests[1].to = "token"
         /\ \A i \in 2..Len(SecondAttemptRequests) :
              /\ SecondAttemptRequests[i].to = "lookup"
              /\ aOut.script[3] \in {"token", "no_token"}
              /\ SecondAttemptRequests[i].token =
                   (IF aOut.script[3] = "token"
                    THEN AccessToken(aOut.at, 1) ELSE NONE)
              /\ SecondAttemptRequests[i].token # FirstAttemptRequests[Len(FirstAttemptRequests)].token
                   \/ SecondAttemptRequests[i].token = NONE
    /\ (aOut.requests = <<>> \/ aOut.requests[1].to = "lookup") <=> CachedTokenIsFresh
    /\ CachedTokenIsFresh =>
         /\ aOut.requests # <<>>
         /\ aOut.requests[1].token = aOut.before.access_token

\* a call refused with 401 on a cached token, retried with a new one
C30_Witness ==
  /\ aCall = "query_user_history"
  /\ CachedTokenIsFresh
  /\ aOut.script[2] = "unauthorized"
  /\ aOut.attempts = 2
  /\ Len(LookupRequests(aOut.requests)) = 2
  /\ aOut.result.success

(***************************************************************************)
(* Narratives generated one after another, from any result and with any    *)
(* answer of the text improvement service.                                 *)
(***************************************************************************)
NarrativeIntents == {"summary", "detail", "count", "list"}

TicketRow(order_id, keluhan, total_count) ==
  [order_id |-> order_id, keluhan |-> keluhan, total_count |-> total_count]

NarrativeRows ==
  {<<>>,
   <<TicketRow("INC000111", "Tidak bisa terima call ket dialihkan", "3")>>,
   <<TicketRow("INC000222", "sinyal ga stabil", "1"),
     TicketRow("INC000111", "Tidak bisa terima call ket dialihkan", "3")>>,
   <<TicketRow("INC000333", "N/A", "0")>>}

NarrativeEntities ==
  {<<>>, <<Entity("kabupaten_kota_create_ticket", "Jakarta", "exact", "geographic", FALSE)>>}

\* the answers of the text improvement service
ImprovementAnswers ==
  {ImprovementAnswer("exception", <<>>), ImprovementAnswer("status", <<>>),
   ImprovementAnswer("ok", <<"Tidak dapat menerima panggilan ketika dialihkan">>),
   ImprovementAnswer("ok", <<"Berikut perbaikan:",
                             "\"Tidak dapat menerima panggilan saat dialihkan\"">>),
   ImprovementAnswer("ok", <<"* singkat">>),
   ImprovementAnswer("ok", <<>>)}

\* the service is called only for a detail of a row with a complaint line
ImprovementsFor(intent, data) ==
  IF intent = "detail" /\ data # <<>> /\ data[1].keluhan # "N/A"
  THEN ImprovementAnswers ELSE {NoImprovement}

GenerateNarrative ==
  /\ Len(narratives) < MaxNarratives
  /\ \E intent \in NarrativeIntents, data \in NarrativeRows, entities \in NarrativeEntities :
       \E llm \in ImprovementsFor(intent, data) :
         narratives' = Append(narratives,
           [intent |-> intent, data |-> data, entities |-> entities, llm |-> llm,
            narrative |-> narrative_text(intent, data, entities, llm)])
  /\ UNCHANGED <<client, aCall, aOut, pending, waited, semantic_mapping, mVars,
                 bVars, sVars, cVars, tVars, hVars>>

NextN ==
  \/ GenerateNarrative

SpecNarrative == InitA /\ [][NextN]_vars

(***************************************************************************)
(* Properties of the narratives                                            *)
(***************************************************************************)
SameTuple(a, b) ==
  a.intent = b.intent /\ a.data = b.data /\ a.entities = b.entities

\* C24: two narratives generated from the same intent, rows and entities
\* have the same text, whatever the text improvement service answered
C24_NarrativeIsPure ==
  \A i, j \in DOMAIN narratives :
    SameTuple(narratives[i], narratives[j])
      => narratives[i].narrative = narratives[j].narrative

\* the same holds of the count, list and summary narratives, and of the
\* detail of a row without a complaint line
C24_PureButDetail ==
  \A i, j \in DOMAIN narratives :
    (/\ SameTuple(narratives[i], narratives[j])
     /\ narratives[i].llm = NoImprovement)
      => narratives[i].narrative = narratives[j].narrative

(***************************************************************************)
(* Properties of the external calls                                        *)
(***************************************************************************)
\* C23: a query that waits on an external call eventually gets its
\* response, whether or not the collaborator ever answers
C23_EveryQueryCompletes ==
  (pending.call # NONE) ~> (pending.call = NONE /\ pending.ended # NONE)

\* every external call passes a timeout to requests.post
C23_EveryCallHasTimeout ==
  pending.call # NONE => timeout_of(pending.call) # NoTimeout

\* the calls that pass a timeout end: a query waiting on one gets on
TimedCallsEnd ==
  \A call \in {"date_extraction", "token_request", "live_lookup"} :
    \A attempt \in 0..(max_retries - 1) :
      (pending.call = call /\ pending.attempt = attempt)
        ~> ~(pending.call = call /\ pending.attempt = attempt)

====
